---------------------------- MODULE Spec2Model ----------------------------
(***************************************************************************)
(* AD-HTC fuel-enhanced power gas cycle analyser (src/script.js).          *)
(*                                                                         *)
(* Number model.  The program computes in IEEE doubles; the model computes *)
(* in fixed point, every quantity an integer count of a fixed unit:        *)
(*     temperature    centikelvin          (100 per K)                      *)
(*     pressure       pascal               (1000 per kPa)                   *)
(*     enthalpy       J/kg                 (1000 per kJ/kg)                 *)
(*     entropy        10^-6 kJ/(kg K)                                       *)
(*     cp             10^-4 kJ/(kg K)                                       *)
(*     efficiency, split                   per mille                        *)
(* Like a double, a fixed-point number has finite resolution: a product or *)
(* a quotient is rounded (here: towards minus infinity) and a bracket that *)
(* is halved stops shrinking once it is one unit wide.                     *)
(***************************************************************************)
EXTENDS Integers, Sequences, FiniteSets, TLC

(* State of the page (section 6), of the direct calls (section 4) and of   *)
(* the step-by-step solver runs (section 5) and of the statement-by-       *)
(* statement evaluator runs (section 7).                                   *)
VARIABLES
    inputs,          \* the values of the form fields getParams reads
    modalActive,     \* modal.classList contains 'active'
    overflow,        \* document.body.style.overflow
    perfMetrics,     \* content of #perf-metrics
    adMetrics,       \* content of #ad-metrics
    gasTableBody,    \* rows of #gas-table-body
    steamTableBody,  \* rows of #steam-table-body
    timers,          \* pending setTimeout callbacks, in scheduling order
    charts,          \* every Chart instance created so far
    hsChart,         \* let hsChart: 0 for null, else an index into charts
    thChart,         \* let thChart: 0 for null, else an index into charts
    evalLog,         \* history: every evaluator call made by a click
    clicks,          \* history: number of analyse clicks so far
    objects,         \* what each click handler's p and results hold now
    call,            \* section 4: the function applied last and its argument
    ret,             \* section 4: what it returned
    prev,            \* section 4: the call and result before it
    solver,          \* section 5: position of a solver loop
    flow             \* section 7: position of a statement-by-statement run

-----------------------------------------------------------------------------
(* Fixed-point arithmetic (the model's stand-in for double arithmetic).    *)

\* const e = v; F(e): v is evaluated once and F applied to its value
With(v, F(_)) == CHOOSE r \in {F(e) : e \in {v}} : TRUE

Abs(a) == IF a < 0 THEN -a ELSE a

\* floor(a*b/c), c > 0, without forming a*b
MulDiv(a, b, c) == With(a, LAMBDA av : (av \div c) * b + ((av % c) * b) \div c)

\* floor(a*b/10^6)
Mul6(a, b) == MulDiv(a, b, 1000) \div 1000

\* floor(a*10^6/b), 0 < b < 2*10^6
Div6(a, b) ==
    With(a \div b, LAMBDA q0 :
    With(a % b, LAMBDA r0 :
    With((r0 * 1000) \div b, LAMBDA q1 :
    With((r0 * 1000) % b, LAMBDA r1 :
        q0 * 1000000 + q1 * 1000 + (r1 * 1000) \div b))))

\* floor(a*b/10^6) for a wide a (|a| up to 10^8) and |b| < 2*10^6
Mul6w(a, b) ==
    With(a, LAMBDA av :
        MulDiv(av, b \div 1000, 1000) + MulDiv(av, b % 1000, 1000) \div 1000)

\* (ci + cf/10^6) * v: a decimal coefficient times v
CoefMul(ci, cf, v) == ci * v + Mul6(cf, v)

\* floor(a * 10^n / b), b > 0, one decimal digit at a time
RECURSIVE DivDigits(_, _, _)
DivDigits(a, b, n) ==
    IF n = 0 THEN a \div b
    ELSE With((a % b) * 10, LAMBDA a10 :
             (a \div b) * 10 ^ n + DivDigits(a10, b, n - 1))

\* floor(sqrt(n)), n >= 0 (Newton's iteration from above)
RECURSIVE SqrtIter(_, _)
SqrtIter(n, r) ==
    With((r + n \div r) \div 2, LAMBDA r2 :
        IF r2 >= r THEN r ELSE SqrtIter(n, r2))

ISqrt(n) == IF n < 2 THEN n ELSE SqrtIter(n, n \div 2 + 1)

\* floor(k * sqrt(n)) for k in {10, 100}: with r = floor(sqrt(n)), the largest
\* d < k such that (k r + d)^2 <= k^2 n
SqrtTimes(n, k) ==
    With(ISqrt(n), LAMBDA r :
    With(k * k * (n - r * r), LAMBDA rem :
    With(IF r = 0 THEN 0
         ELSE IF rem \div (2 * k * r) > k - 1 THEN k - 1
         ELSE rem \div (2 * k * r), LAMBDA d0 :
        k * r + (IF 2 * k * r * d0 + d0 * d0 > rem THEN d0 - 1 ELSE d0))))

\* Math.log(a/b) in units of 10^-6, a > 0, b > 0:
\* ln(a/b) = k ln 2 + 2 atanh(z), z = (a - b 2^k)/(a + b 2^k), 1 <= a/(b 2^k) < 2
Ln2 == 693147

RECURSIVE Shrink(_, _)
Shrink(a, b) == IF a + b < 2000000 THEN <<a, b>> ELSE Shrink(a \div 2, b \div 2)

Atanh2(z) ==
    With(Mul6(z, z), LAMBDA z2 :
    With(Mul6(z, z2), LAMBDA z3 :
    With(Mul6(z3, z2), LAMBDA z5 :
    With(Mul6(z5, z2), LAMBDA z7 :
    With(Mul6(z7, z2), LAMBDA z9 :
    With(Mul6(z9, z2), LAMBDA z11 :
        2 * (z + z3 \div 3 + z5 \div 5 + z7 \div 7 + z9 \div 9
               + z11 \div 11 + Mul6(z11, z2) \div 13)))))))

RECURSIVE LnRed(_, _, _)
LnRed(a, b, k) ==
    IF a >= 2 * b THEN LnRed(a, 2 * b, k + 1)
    ELSE With(Shrink(a, b), LAMBDA ab :
         With(Div6(ab[1] - ab[2], ab[1] + ab[2]), LAMBDA z :
             k * Ln2 + Atanh2(z)))

Ln(a, b) ==
    With(a, LAMBDA av :
    With(b, LAMBDA bv :
        IF av >= bv THEN LnRed(av, bv, 0) ELSE -LnRed(bv, av, 0)))

-----------------------------------------------------------------------------
(* 1. GasTable                                                             *)

R_air == 287    \* 0.287 kJ/(kg K), per mille

\* x * t with t = T/1000 (T in centikelvin: t = T/100000)
TimesT(c, T) == MulDiv(c, T, 1000) \div 100

\* cp with the sign of the cubic term taken for the quadratic one as well
cp_negativeQuadratic(T) ==
    10483 - TimesT(3717, T) - TimesT(TimesT(9483, T), T)
          - TimesT(TimesT(TimesT(6271, T), T), T)
          + TimesT(TimesT(TimesT(TimesT(1507, T), T), T), T)

\* cp(T) = 1.0483 - 0.3717 t + 0.9483 t^2 - 0.6271 t^3 + 0.1507 t^4
cp(T) ==
    With(T, LAMBDA Tv :
        10483 - TimesT(3717, Tv) + TimesT(TimesT(9483, Tv), Tv)
              - TimesT(TimesT(TimesT(6271, Tv), Tv), Tv)
              + TimesT(TimesT(TimesT(TimesT(1507, Tv), Tv), Tv), Tv))

\* The interior weights exchanged
SimpsonWeight_swapped(i) == IF i % 2 = 0 THEN 4 ELSE 2

\* Simpson weight of interior node i
SimpsonWeight(i) == IF i % 2 = 0 THEN 2 ELSE 4

SimpsonN == 200

\* h(T): sum = cp(1); for i in 1..n-1: sum += w(i) cp(i dT); sum += cp(T);
\* return (dT/3) sum, with dT = T/n.  The loop's additions are grouped as a
\* balanced tree (integer addition is associative).
RECURSIVE hLoop(_, _, _)
hLoop(T, i, j) ==
    IF i = j
    THEN SimpsonWeight(i) * cp((i * T) \div SimpsonN)
    ELSE With((i + j) \div 2, LAMBDA m : hLoop(T, i, m) + hLoop(T, m + 1, j))

h(T) ==
    With(T, LAMBDA Tv :
    With(cp(100) + hLoop(Tv, 1, SimpsonN - 1) + cp(Tv), LAMBDA sum :
        MulDiv(sum \div 6, Tv, 1000) \div 100))

T_ref == 29815      \* 298.15 K
P_ref == 101325     \* 101.325 kPa

\* the integrand cp(Ti)/Ti in units of 10^-8
cpOverT(Ti) == With(Ti, LAMBDA Tv : Div6(cp(Tv), Tv))

RECURSIVE sLoop(_, _, _)
sLoop(T, i, j) ==
    IF i = j
    THEN SimpsonWeight(i) * cpOverT(T_ref + (i * (T - T_ref)) \div SimpsonN)
    ELSE With((i + j) \div 2, LAMBDA m : sLoop(T, i, m) + sLoop(T, m + 1, j))

s(T, P) ==
    With(T, LAMBDA Tv :
    With(cpOverT(T_ref) + sLoop(Tv, 1, SimpsonN - 1) + cpOverT(Tv), LAMBDA sum :
        MulDiv(sum \div 600, Tv - T_ref, 1000) \div 10
          - MulDiv(Ln(P, P_ref), R_air, 1000)))

BisectN == 80

\* The midpoint taken at the upper end of the bracket
Mid_upperEnd(lo, hi) == hi

\* const mid = (lo + hi) / 2
Mid(lo, hi) == (lo + hi) \div 2

\* The loop body on the bracket b = <<lo, hi>>:
\* const mid = (lo + hi) / 2; if (s(mid, P2) < s_target) lo = mid; else hi = mid
TisoBody(b, P2, s_target) ==
    With(Mid(b[1], b[2]), LAMBDA mid :
        IF s(mid, P2) < s_target THEN <<mid, b[2]>> ELSE <<b[1], mid>>)

\* n iterations of the loop body from bracket b: the first n \div 2, then
\* the rest.  lo never decreases and hi never increases, so iterations that
\* end on the bracket they started from have each left it unchanged, and so
\* do all the iterations after them.
RECURSIVE TisoLoop(_, _, _, _)
TisoLoop(n, b, P2, s_target) ==
    IF n = 0 THEN b
    ELSE IF n = 1 THEN TisoBody(b, P2, s_target)
    ELSE With(TisoLoop(n \div 2, b, P2, s_target), LAMBDA b1 :
             IF b1 = b THEN b ELSE TisoLoop(n - n \div 2, b1, P2, s_target))

TisoLo(T1) == MulDiv(T1, 4, 10)
TisoHi(T1) == MulDiv(T1, 35, 10)

T_isentropic(T1, P1, P2) ==
    With(s(T1, P1), LAMBDA s_target :
    With(<<TisoLo(T1), TisoHi(T1)>>, LAMBDA b0 :
    With(TisoLoop(BisectN, b0, P2, s_target), LAMBDA b : Mid(b[1], b[2]))))

-----------------------------------------------------------------------------
(* 2. SteamTable                                                           *)

\* Math.pow(P, 0.25) with P in MPa, in units of 10^-5
Beta(P) == SqrtTimes(SqrtTimes(P, 100) * 1000, 10)

\* T_sat(P_kPa): the IF97 backward equation.  E in 10^-5, F in 10^-2,
\* G in 10^-1, D in 10^-4; the last radicand (n10 + D)^2 - 4 (n9 + n10 D)
\* is formed as (n10 - D)^2 - 4 n9, the same number.
T_sat(P) ==
    With(Beta(P), LAMBDA beta :
    With(MulDiv(beta, beta, 1000) \div 100, LAMBDA b2 :
    With(b2 - CoefMul(17, 73847, beta) + 1491511, LAMBDA E :
    With(Mul6(1167052, b2) + CoefMul(12, 20825, beta) - 482327, LAMBDA F :
    With(4051134 - CoefMul(72, 421317, b2) - CoefMul(323, 255503, beta), LAMBDA G :
    With(F \div 100, LAMBDA F0 :
    With(F0 * F0 + (2 * F0 * (F % 100)) \div 100, LAMBDA FF :
    With(FF - 4 * Mul6w(G, E), LAMBDA disc :
    With(F + SqrtTimes(disc, 100), LAMBDA den :
    With(DivDigits(2 * (-G), den, 5), LAMBDA D :
    With((6501753 - D) \div 100, LAMBDA v :
        ((6501753 + D) \div 100 - ISqrt(v * v + 9542)) \div 2)))))))))))

PsatN == 60

PsatBody(b, T) ==
    With(Mid(b[1], b[2]), LAMBDA mid :
        IF T_sat(mid) < T THEN <<mid, b[2]>> ELSE <<b[1], mid>>)

RECURSIVE PsatLoop(_, _, _)
PsatLoop(n, b, T) ==
    IF n = 0 THEN b
    ELSE IF n = 1 THEN PsatBody(b, T)
    ELSE With(PsatLoop(n \div 2, b, T), LAMBDA b1 :
             IF b1 = b THEN b ELSE PsatLoop(n - n \div 2, b1, T))

PsatLo == 500          \* 0.5 kPa
PsatHi == 25000000     \* 25000 kPa

P_sat(T) ==
    With(T, LAMBDA Tv :
    With(PsatLoop(PsatN, <<PsatLo, PsatHi>>, Tv), LAMBDA b : Mid(b[1], b[2])))

\* hf = 4.18 Tc + 0.00088 Tc^2, Tc = T_sat - 273.15
hf(P) ==
    With(T_sat(P) - 27315, LAMBDA Tc : (418 * Tc) \div 10 + Mul6(88 * Tc, Tc))

\* hg = 2501.3 + 1.86 (T_sat - 273.15)
hg(P) == 2501300 + (186 * (T_sat(P) - 27315)) \div 10

hfg(P) == hg(P) - hf(P)

\* sf = 4.18 ln(T_sat / 273.15)
sf(P) == MulDiv(Ln(T_sat(P), 27315), 418, 100)

\* sg = sf + hfg / T_sat
sg(P) ==
    With(hfg(P), LAMBDA hfgv :
    With(T_sat(P), LAMBDA Ts : sf(P) + DivDigits(hfgv, Ts, 5)))

vf == 1    \* 0.001 m^3/kg, per mille

\* cp_s = 1.87 + 0.00036 (T - 373.15), in units of 10^-6
cp_s(T) == 1870000 + (36 * (T - 37315)) \div 10

h_super(P, T) ==
    With(T, LAMBDA Tv :
        hg(P) + MulDiv(cp_s(Tv), Tv - T_sat(P), 1000) \div 100)

s_super(P, T) ==
    With(T, LAMBDA Tv : sg(P) + Mul6w(Ln(Tv, T_sat(P)), cp_s(Tv)))

TfsBody(b, P, s_target) ==
    With(Mid(b[1], b[2]), LAMBDA mid :
        IF s_super(P, mid) < s_target THEN <<mid, b[2]>> ELSE <<b[1], mid>>)

RECURSIVE TfsLoop(_, _, _, _)
TfsLoop(n, b, P, s_target) ==
    IF n = 0 THEN b
    ELSE IF n = 1 THEN TfsBody(b, P, s_target)
    ELSE With(TfsLoop(n \div 2, b, P, s_target), LAMBDA b1 :
             IF b1 = b THEN b ELSE TfsLoop(n - n \div 2, b1, P, s_target))

TfsHi == 120000     \* 1200 K

T_from_s_super(P, s_target) ==
    With(P, LAMBDA Pv :
    With(s_target, LAMBDA sv :
    With(<<T_sat(Pv), TfsHi>>, LAMBDA b0 :
    With(TfsLoop(BisectN, b0, Pv, sv), LAMBDA b : Mid(b[1], b[2])))))

XS == 1000000       \* quality 1, in units of 10^-6

\* x_from_s without the two clamps
x_from_s_unclamped(P, sv) == DivDigits(sv - sf(P), sg(P) - sf(P), 6)

x_from_s(P, sv) ==
    With(sf(P), LAMBDA sfv :
    With(sg(P), LAMBDA sgv :
    With(sv, LAMBDA svv :
        IF svv <= sfv THEN 0
        ELSE IF svv >= sgv THEN XS
        ELSE DivDigits(svv - sfv, sgv - sfv, 6))))

h_from_x(P, xq) == hf(P) + Mul6w(hfg(P), xq)
-----------------------------------------------------------------------------
(* 3. Cycle calculations                                                   *)
(*                                                                         *)
(* A parameter set is the record getParams() builds: T1, TIT, T_steam and  *)
(* htc_temp in centikelvin; P1, P_boiler and P_cond in pascal; rp in       *)
(* tenths; the efficiencies and moisture_split per mille; LHV in kJ/kg;    *)
(* m_air and m_biomass in 10^-2 kg/s; ad_yield in 10^-3 m^3/kg.            *)
(* State ids: "1".."5" stand for the circled digits of the gas cycle and   *)
(* "a".."d" for the circled letters of the steam cycle.                    *)

\* The x field of a steam state record: the string '-' or a number printed
\* with three decimals, kept as its count of thousandths
NA == [isNumber |-> FALSE, thousandths |-> 0]
Quality(k) == [isNumber |-> TRUE, thousandths |-> k]

\* push that drops the record once three are held
push_dropAfterThree(states, st) ==
    IF Len(states) >= 3 THEN states ELSE Append(states, st)

\* Array.prototype.push
push(states, st) == Append(states, st)

\* P3 = P2 * 0.96
CombustorExitP(P2) == MulDiv(P2, 96, 100)

\* Expansion down to the ambient pressure
ExhaustP_ambient(P1) == P1

\* P5 = P1 * 1.02
ExhaustP(P1) == MulDiv(P1, 102, 100)

\* T2 taken as the isentropic temperature
CompressorExitT_ideal(T1, T2s, eta_c) == T2s

\* h2 = h1 + (h2s - h1) / eta_c
CompressorExitH(h1, h2s, eta_c) == h1 + MulDiv(h2s - h1, 1000, eta_c)

\* T2 = T2s + (T2s - T1) * (1 / eta_c - 1)
CompressorExitT(T1, T2s, eta_c) == T2s + MulDiv(T2s - T1, 1000 - eta_c, eta_c)

\* T5 taken as the isentropic temperature
TurbineExitT_ideal(T3, T5s, eta_t) == T5s

\* h5 = h4 - eta_t * (h4 - h5s)
TurbineExitH(h4, h5s, eta_t) == h4 - MulDiv(h4 - h5s, eta_t, 1000)

\* T5 = T5s + (T3 - T5s) * (1 - eta_t)
TurbineExitT(T3, T5s, eta_t) == T5s + MulDiv(T3 - T5s, 1000 - eta_t, 1000)

\* GasAggregates with the compressor work left out of w_net
GasAggregates_noCompressor(h1, h2, h4, h5, m_air, LHV) ==
    [w_c |-> h2 - h1, w_t |-> h4 - h5, q_in |-> h4 - h2, w_net |-> h4 - h5,
     m_fuel |-> MulDiv(h4 - h2, m_air, LHV)]

\* w_c = h2 - h1; w_t = h4 - h5; q_in = h4 - h2; w_net = w_t - w_c;
\* m_fuel = (q_in * m_air) / LHV
GasAggregates(h1, h2, h4, h5, m_air, LHV) ==
    With(h2 - h1, LAMBDA w_c :
    With(h4 - h5, LAMBDA w_t :
    With(h4 - h2, LAMBDA q_in :
        [w_c |-> w_c, w_t |-> w_t, q_in |-> q_in, w_net |-> w_t - w_c,
         m_fuel |-> MulDiv(q_in, m_air, LHV)])))

\* A gas state record
GasState(id, label, T, P, hv, sv) ==
    [id |-> id, label |-> label, T |-> T, P |-> P, h |-> hv, s |-> sv]

\* Each const of the source is bound once, in the source's order; h(T1) and
\* s(T2, P2), which the source evaluates twice, are bound once.  The value
\* is the array states with every const of the function body.
GasCycleConsts(p) ==
    With(h(p.T1), LAMBDA h1 :
    With(GasState("1", "Air Inlet", p.T1, p.P1, h1, s(p.T1, p.P1)), LAMBDA st1 :
    With(MulDiv(p.P1, p.rp, 10), LAMBDA P2 :
    With(T_isentropic(p.T1, p.P1, P2), LAMBDA T2s :
    With(h(T2s), LAMBDA h2s :
    With(CompressorExitH(h1, h2s, p.eta_c), LAMBDA h2 :
    With(CompressorExitT(p.T1, T2s, p.eta_c), LAMBDA T2 :
    With(GasState("2", "Compressor Exit", T2, P2, h2, s(T2, P2)), LAMBDA st2 :
    With(CombustorExitP(P2), LAMBDA P3 :
    With(GasState("3", "Combustor Inlet", T2, P2, h2, st2.s), LAMBDA st3 :
    With(h(p.TIT), LAMBDA h4 :
    With(GasState("4", "Combustor Exit (TIT)", p.TIT, P3, h4, s(p.TIT, P3)),
         LAMBDA st4 :
    With(ExhaustP(p.P1), LAMBDA P5 :
    With(T_isentropic(p.TIT, P3, P5), LAMBDA T5s :
    With(h(T5s), LAMBDA h5s :
    With(TurbineExitH(h4, h5s, p.eta_t), LAMBDA h5 :
    With(TurbineExitT(p.TIT, T5s, p.eta_t), LAMBDA T5 :
    With(GasState("5", "Turbine Exhaust", T5, P5, h5, s(T5, P5)), LAMBDA st5 :
    With(GasAggregates(h1, h2, h4, h5, p.m_air, p.LHV), LAMBDA agg :
        [states |-> push(push(push(push(push(<<>>, st1), st2), st3), st4), st5),
         w_c |-> agg.w_c, w_t |-> agg.w_t, q_in |-> agg.q_in,
         w_net |-> agg.w_net, m_fuel |-> agg.m_fuel,
         T1 |-> p.T1, P1 |-> p.P1, P2 |-> P2, T2s |-> T2s, h1 |-> h1,
         h2s |-> h2s, h2 |-> h2, T2 |-> T2, T3 |-> p.TIT, P3 |-> P3,
         h4 |-> h4, P5 |-> P5, T5s |-> T5s, h5s |-> h5s, h5 |-> h5, T5 |-> T5]
    )))))))))))))))))))

\* return { states, w_c, w_t, q_in, w_net, m_fuel, T_exhaust: T5 }
GasReturn(c) ==
    [states |-> c.states, w_c |-> c.w_c, w_t |-> c.w_t, q_in |-> c.q_in,
     w_net |-> c.w_net, m_fuel |-> c.m_fuel, T_exhaust |-> c.T5]

calculateGasCycle(p) == GasReturn(GasCycleConsts(p))

\* IdealExit with the tie s_a = sg sent to the two-phase branch
IdealExit_tieTwoPhase(Pb, sb_s) ==
    IF sb_s <= sg(Pb)
    THEN With(x_from_s(Pb, sb_s), LAMBDA xb_s :
             [branch |-> "two-phase", xb_s |-> xb_s,
              hb_s |-> h_from_x(Pb, xb_s), Tb |-> T_sat(Pb)])
    ELSE With(T_from_s_super(Pb, sb_s), LAMBDA Tb :
             [branch |-> "superheated", xb_s |-> XS,
              hb_s |-> h_super(Pb, Tb), Tb |-> Tb])

\* The ideal (isentropic) turbine exit: the branch taken, xb_s, hb_s and Tb
IdealExit(Pb, sb_s) ==
    IF sb_s < sg(Pb)
    THEN With(x_from_s(Pb, sb_s), LAMBDA xb_s :
             [branch |-> "two-phase", xb_s |-> xb_s,
              hb_s |-> h_from_x(Pb, xb_s), Tb |-> T_sat(Pb)])
    ELSE With(T_from_s_super(Pb, sb_s), LAMBDA Tb :
             [branch |-> "superheated", xb_s |-> XS,
              hb_s |-> h_super(Pb, Tb), Tb |-> Tb])

\* hb = ha - eta_st * (ha - hb_s)
RealExitH(ha, hb_s, eta_st) == ha - MulDiv(ha - hb_s, eta_st, 1000)

\* xb.toFixed(3)
toFixed3(xq) ==
    Quality(IF xq >= 0 THEN (xq + 500) \div 1000 ELSE -((500 - xq) \div 1000))

\* RealExit without the xb <= 1 test: the quality is always a number
RealExit_noGuard(Pb, hb, TbIdeal) ==
    With(DivDigits(hb - hf(Pb), hfg(Pb), 6), LAMBDA xb :
    With(sf(Pb), LAMBDA sf_c :
        [T |-> T_sat(Pb), s |-> sf_c + Mul6w(sg(Pb) - sf_c, xb),
         x |-> toFixed3(xb)]))

\* The real turbine exit from hb and the Tb left by the ideal branch:
\* xb = (hb - hf) / hfg; if (xb <= 1) { sb = sf + xb (sg - sf); Tb = T_sat }
\* else { sb = s_super(Pb, Tb); xb = '-' }
RealExit(Pb, hb, TbIdeal) ==
    With(DivDigits(hb - hf(Pb), hfg(Pb), 6), LAMBDA xb :
        IF xb <= XS
        THEN With(sf(Pb), LAMBDA sf_c :
                 [T |-> T_sat(Pb), s |-> sf_c + Mul6w(sg(Pb) - sf_c, xb),
                  x |-> toFixed3(xb)])
        ELSE [T |-> TbIdeal, s |-> s_super(Pb, TbIdeal), x |-> NA])

\* A steam state record
SteamState(id, label, T, P, hv, sv, xv) ==
    [id |-> id, label |-> label, T |-> T, P |-> P, h |-> hv, s |-> sv, x |-> xv]

\* SteamAggregates with the pump work left out of w_net
SteamAggregates_noPump(ha, hb, hc, hd, wp) ==
    [w_st |-> ha - hb, w_fp |-> wp, q_boiler |-> ha - hd,
     q_cond |-> hb - hc, w_net |-> ha - hb]

\* w_st = ha - hb; w_fp = wp; q_boiler = ha - hd; q_cond = hb - hc;
\* w_net = w_st - w_fp
SteamAggregates(ha, hb, hc, hd, wp) ==
    With(ha - hb, LAMBDA w_st :
    With(wp, LAMBDA w_fp :
        [w_st |-> w_st, w_fp |-> w_fp, q_boiler |-> ha - hd,
         q_cond |-> hb - hc, w_net |-> w_st - w_fp]))

calculateSteamCycle(p) ==
    With(h_super(p.P_boiler, p.T_steam), LAMBDA ha :
    With(s_super(p.P_boiler, p.T_steam), LAMBDA sa :
    With(SteamState("a", "Boiler Exit (Superheated)", p.T_steam, p.P_boiler,
                    ha, sa, NA), LAMBDA sta :
    With(IdealExit(p.P_cond, sa), LAMBDA ideal :
    With(RealExitH(ha, ideal.hb_s, p.eta_st), LAMBDA hb :
    With(RealExit(p.P_cond, hb, ideal.Tb), LAMBDA real :
    With(SteamState("b", "ST Exit", real.T, p.P_cond, hb, real.s, real.x),
         LAMBDA stb :
    With(T_sat(p.P_cond), LAMBDA Tc :
    With(hf(p.P_cond), LAMBDA hc :
    With(sf(p.P_cond), LAMBDA sc :
    With(SteamState("c", "Condenser Exit (Sat. Liq.)", Tc, p.P_cond, hc, sc,
                    Quality(0)), LAMBDA stc :
    With(MulDiv(p.P_boiler - p.P_cond, vf, 1000), LAMBDA wp_s :
    With(MulDiv(wp_s, 1000, p.eta_fp), LAMBDA wp :
    With(hc + wp, LAMBDA hd :
    With(SteamState("d", "Feed Pump Exit", Tc + (wp * 10) \div 418,
                    p.P_boiler, hd, sc + 1000, NA), LAMBDA std :
    With(SteamAggregates(ha, hb, hc, hd, wp), LAMBDA agg :
        [states |-> push(push(push(push(<<>>, sta), stb), stc), std),
         w_st |-> agg.w_st, w_fp |-> agg.w_fp, q_boiler |-> agg.q_boiler,
         q_cond |-> agg.q_cond, w_net |-> agg.w_net]
    ))))))))))))))))

\* calculateADHTC with the lean stream computed from the rich fraction
calculateADHTC_leanFromRich(p) ==
    LET m_total    == p.m_biomass
        m_rich     == MulDiv(m_total, p.moisture_split, 1000)
        m_lean     == MulDiv(m_total, p.moisture_split, 1000)
        biogas_vol == MulDiv(m_rich, p.ad_yield, 1000)
        m_biogas   == MulDiv(biogas_vol, 115, 100)
        htc_energy == (m_lean * 15 * (p.htc_temp - 29800)) \div 100
    IN  [m_total |-> m_total, m_rich |-> m_rich, m_lean |-> m_lean,
         biogas_vol |-> biogas_vol, m_biogas |-> m_biogas,
         htc_energy |-> htc_energy]

\* calculateADHTC reading the module-level chart reference: the feed is
\* reported differently once a chart exists
calculateADHTC_readsChart(p) ==
    LET m_total    == p.m_biomass + (IF hsChart = 0 THEN 0 ELSE 1)
        m_rich     == MulDiv(m_total, p.moisture_split, 1000)
        m_lean     == MulDiv(m_total, 1000 - p.moisture_split, 1000)
        biogas_vol == MulDiv(m_rich, p.ad_yield, 1000)
        m_biogas   == MulDiv(biogas_vol, 115, 100)
        htc_energy == (m_lean * 15 * (p.htc_temp - 29800)) \div 100
    IN  [m_total |-> m_total, m_rich |-> m_rich, m_lean |-> m_lean,
         biogas_vol |-> biogas_vol, m_biogas |-> m_biogas,
         htc_energy |-> htc_energy]

\* biogas_density = 1.15 kg/m^3; htc_energy = m_lean * 1.5 * (htc_temp - 298).
\* biogas_vol in 10^-2 m^3/s, m_biogas in 10^-2 kg/s, htc_energy in J/s.
calculateADHTC(p) ==
    LET m_total    == p.m_biomass
        m_rich     == MulDiv(m_total, p.moisture_split, 1000)
        m_lean     == MulDiv(m_total, 1000 - p.moisture_split, 1000)
        biogas_vol == MulDiv(m_rich, p.ad_yield, 1000)
        m_biogas   == MulDiv(biogas_vol, 115, 100)
        htc_energy == (m_lean * 15 * (p.htc_temp - 29800)) \div 100
    IN  [m_total |-> m_total, m_rich |-> m_rich, m_lean |-> m_lean,
         biogas_vol |-> biogas_vol, m_biogas |-> m_biogas,
         htc_energy |-> htc_energy]

-----------------------------------------------------------------------------
(* 4. Direct calls of the core functions                                   *)
(*                                                                         *)
(* call is the function applied last and its argument, ret what it         *)
(* returned, prev the call and result before it.                           *)

coreVars == <<call, ret, prev>>
appVars == <<inputs, modalActive, overflow, perfMetrics, adMetrics,
             gasTableBody, steamTableBody, timers, charts, hsChart, thChart,
             evalLog, clicks, objects>>
vars == <<appVars, coreVars, solver, flow>>

None == [fn |-> "none"]
Idle == [pc |-> "idle"]
FlowIdle == [status |-> "idle"]

\* Form field values: the README's default design point (P_boiler is typed
\* in MPa, here in thousandths), a second operating point whose turbine
\* exit is superheated, and a third with ideal machines
DesignPoint ==
    [T1 |-> 29800, P1 |-> 101325, rp |-> 100, TIT |-> 140000, eta_c |-> 860,
     eta_t |-> 890, LHV |-> 20000, m_air |-> 5000, P_boiler |-> 4000,
     T_steam |-> 67300, P_cond |-> 10000, eta_st |-> 850, eta_fp |-> 800,
     m_biomass |-> 500, moisture_split |-> 600, ad_yield |-> 400,
     htc_temp |-> 47300]
FormInputs ==
    {DesignPoint,
     [DesignPoint EXCEPT !.rp = 150, !.TIT = 150000, !.eta_st = 600,
                         !.m_biomass = 7, !.moisture_split = 333],
     [DesignPoint EXCEPT !.eta_c = 1000, !.eta_t = 1000, !.eta_st = 1000,
                         !.eta_fp = 1000, !.moisture_split = 1000]}

\* P_boiler: +value * 1000; every other field: +value
getParams(f) == [f EXCEPT !.P_boiler = f.P_boiler * 1000]

FormParams == {getParams(f) : f \in FormInputs}

\* Gas parameter sets: those of the form, a pressure ratio of 200, at
\* which both isentropic temperatures fall outside their brackets, and
\* compressor efficiencies from 0.2 to 0.99 and turbine efficiencies from 0 to 1
GasEfficiencies == {<<200, 890>>, <<500, 500>>, <<990, 0>>, <<860, 1000>>}
GasParamSets ==
    FormParams \cup {getParams([DesignPoint EXCEPT !.rp = 2000])}
        \cup {getParams([DesignPoint EXCEPT !.eta_c = e[1], !.eta_t = e[2]]) :
                 e \in GasEfficiencies}

\* Steam parameter sets: those of the form, the design point, a boiler at
\* condenser pressure, steam at the condenser's saturation temperature, and
\* turbine efficiencies from 0 to beyond 1
SteamBoilerPressures == {4000000, 10000}
SteamTemperatures == {67300, 67304, 32325, 31896}
SteamTurbineEtas == {0, 600, 850, 1000, 3000}
SteamParamSets ==
    FormParams \cup
    {[getParams(DesignPoint) EXCEPT !.P_boiler = Pa, !.T_steam = Ta,
                                   !.eta_st = e] :
        Pa \in SteamBoilerPressures, Ta \in SteamTemperatures,
        e \in SteamTurbineEtas}

\* AD-HTC parameter sets
ADBiomass == {0, 1, 7, 500, 1000}
ADSplits == {0, 40, 333, 600, 1000}
ADParamSets ==
    FormParams \cup
    {[getParams(DesignPoint) EXCEPT !.m_biomass = m, !.moisture_split = f] :
        m \in ADBiomass, f \in ADSplits}

\* calculateGasCycle and calculateSteamCycle tabulated over the parameter
\* sets the specifications apply them to
GasConstsOf == [p \in GasParamSets |-> GasCycleConsts(p)]
GasCycleOf == [p \in GasParamSets |-> GasReturn(GasConstsOf[p])]
SteamCycleOf == [p \in SteamParamSets |-> calculateSteamCycle(p)]

\* Entropies around and between sf(P) and sg(P)
XsPressures == {10000, 4000000}
XsEntropies(P) ==
    With(sf(P), LAMBDA a :
    With(sg(P), LAMBDA b :
        {a - 1000, a, a + 1, a + (b - a) \div 4, a + (b - a) \div 2,
         b - 1, b, b + 1, b + 1000}))
XsArgs == UNION {{[P |-> P, s |-> sv] : sv \in XsEntropies(P)} : P \in XsPressures}

\* The ideal turbine exit tabulated over SteamParamSets
IdealExitOf ==
    [p \in SteamParamSets |->
        IdealExit(p.P_cond, s_super(p.P_boiler, p.T_steam))]

\* x_from_s tabulated over XsArgs
XFromSOf == [a \in XsArgs |-> x_from_s(a.P, a.s)]

Previous == IF call = None THEN None ELSE [call |-> call, ret |-> ret]

CallGasCycle ==
    \E p \in GasParamSets :
        /\ call' = [fn |-> "calculateGasCycle", arg |-> p]
        /\ ret' = GasCycleOf[p]
        /\ prev' = Previous
        /\ UNCHANGED <<solver, flow, appVars>>

CallSteamCycle ==
    \E p \in SteamParamSets :
        /\ call' = [fn |-> "calculateSteamCycle", arg |-> p]
        /\ ret' = SteamCycleOf[p]
        /\ prev' = Previous
        /\ UNCHANGED <<solver, flow, appVars>>

CallXFromS ==
    \E a \in XsArgs :
        /\ call' = [fn |-> "x_from_s", arg |-> a]
        /\ ret' = XFromSOf[a]
        /\ prev' = Previous
        /\ UNCHANGED <<solver, flow, appVars>>

CallADHTC ==
    \E p \in ADParamSets :
        /\ call' = [fn |-> "calculateADHTC", arg |-> p]
        /\ ret' = calculateADHTC(p)
        /\ prev' = Previous
        /\ UNCHANGED <<solver, flow, appVars>>

\* The page as loaded: nothing rendered, no timer pending
PageLoaded ==
    /\ modalActive = FALSE
    /\ overflow = ""
    /\ perfMetrics = <<>>
    /\ adMetrics = <<>>
    /\ gasTableBody = <<>>
    /\ steamTableBody = <<>>
    /\ timers = <<>>
    /\ charts = <<>>
    /\ hsChart = 0
    /\ thChart = 0
    /\ evalLog = {}
    /\ clicks = 0
    /\ objects = <<>>

NoCall ==
    call = None /\ ret = None /\ prev = None /\ solver = Idle /\ flow = FlowIdle

InitCore == NoCall /\ PageLoaded /\ inputs = DesignPoint

NextCore == CallGasCycle \/ CallSteamCycle \/ CallXFromS \/ CallADHTC

SpecCore == InitCore /\ [][NextCore]_vars

-----------------------------------------------------------------------------
(* Properties of the direct calls                                          *)

IsGasCall == call.fn = "calculateGasCycle"
IsSteamCall == call.fn = "calculateSteamCycle"
IsXCall == call.fn = "x_from_s"
IsADCall == call.fn = "calculateADHTC"

\* The ids of a states array, in array order
Ids(states) == [k \in 1..Len(states) |-> states[k].id]

\* C2: for every parameter set calculateGasCycle returns exactly 5 state
\* records with ids 1,2,3,4,5 in that order and calculateSteamCycle exactly
\* 4 with ids a,b,c,d in that order, on every branch.
C2_StateIdsInOrder ==
    /\ IsGasCall => Ids(ret.states) = <<"1", "2", "3", "4", "5">>
    /\ IsSteamCall => Ids(ret.states) = <<"a", "b", "c", "d">>

\* A steam call whose real exit took the superheated branch has returned
\* right after a gas call
C2_Witness ==
    /\ IsSteamCall
    /\ ret.states[2].x = NA
    /\ Len(ret.states) = 4
    /\ prev # None
    /\ prev.call.fn = "calculateGasCycle"
    /\ Len(prev.ret.states) = 5

\* C3: in every result of calculateGasCycle w_c = h(2) - h(1),
\* w_t = h(4) - h(5), q_in = h(4) - h(2), w_net = w_t - w_c and
\* m_fuel = q_in * m_air / LHV, so w_net recomputed from the state records
\* equals the returned w_net.
C3_GasAggregatesConsistent ==
    IsGasCall =>
        LET st == ret.states
        IN  /\ ret.w_c = st[2].h - st[1].h
            /\ ret.w_t = st[4].h - st[5].h
            /\ ret.q_in = st[4].h - st[2].h
            /\ ret.w_net = ret.w_t - ret.w_c
            /\ ret.m_fuel = MulDiv(ret.q_in, call.arg.m_air, call.arg.LHV)
            /\ ret.w_net = (st[4].h - st[5].h) - (st[2].h - st[1].h)

\* A gas call with positive compressor work, net work and fuel flow has
\* returned
C3_Witness ==
    /\ IsGasCall
    /\ ret.w_c > 0
    /\ ret.w_net > 0
    /\ ret.w_t > ret.w_net
    /\ ret.m_fuel > 0


\* The isentropic exit entropy of the current steam call is exactly sg(P_cond)
SteamTie == IsSteamCall /\ ret.states[1].s = sg(call.arg.P_cond)

\* The ideal turbine exit of the current steam call
IdealOfCall == IdealExitOf[call.arg]

\* C4 as stated: when s_a = sg(P_cond) the ideal turbine exit is computed on
\* the two-phase branch, with quality 1 and T = T_sat(P_cond).
C4_TieTwoPhase ==
    SteamTie =>
        /\ IdealOfCall.branch = "two-phase"
        /\ IdealOfCall.xb_s = XS
        /\ IdealOfCall.Tb = T_sat(call.arg.P_cond)

\* C4 amended: when s_a = sg(P_cond) the ideal turbine exit is computed on
\* the superheated branch: xb_s is set to 1, Tb is the bisection result
\* T_from_s_super(P_cond, s_a), hb_s = h_super(P_cond, Tb), and the real
\* exit enthalpy is derived from that hb_s; Tb lies within the bisection
\* tolerance of T_sat(P_cond).
C4_TieSuperheated ==
    SteamTie =>
        LET Pb == call.arg.P_cond
            ideal == IdealOfCall
        IN  /\ ideal.branch = "superheated"
            /\ ideal.xb_s = XS
            /\ ideal.hb_s = h_super(Pb, ideal.Tb)
            /\ Abs(ideal.Tb - T_sat(Pb)) <= 1
            /\ ret.states[2].h =
                   RealExitH(ret.states[1].h, ideal.hb_s, call.arg.eta_st)

\* A steam call at the tie has returned
C4_Witness == SteamTie /\ Len(ret.states) = 4

\* C5 as stated: two steam evaluations with the same condenser pressure and
\* the same real exit enthalpy h_b report the same T, s and x for state b,
\* whatever the ideal evaluation did.
C5_RealExitIndependent ==
    (IsSteamCall /\ prev # None /\ prev.call.fn = call.fn) =>
        LET b1 == prev.ret.states[2]
            b2 == ret.states[2]
        IN  (b1.P = b2.P /\ b1.h = b2.h) =>
                (b1.T = b2.T /\ b1.s = b2.s /\ b1.x = b2.x)

\* The quality field of a steam state record is the sentinel or a number
\* in [0, 1]
QualityOK(st) ==
    st.x = NA \/ (st.x.isNumber /\ st.x.thousandths >= 0 /\ st.x.thousandths <= 1000)

\* C6 as stated: for every parameter set, every state record of
\* calculateSteamCycle has x = '-' or a number in [0,1].
C6_QualityInRange ==
    IsSteamCall => \A k \in 1..Len(ret.states) : QualityOK(ret.states[k])

\* The parameter set keeps the real exit at or above saturated liquid:
\* turbine efficiency in [0,1], boiler exit enthalpy at least hf(P_cond),
\* and hfg(P_cond) positive
SteamInDomain ==
    /\ call.arg.eta_st >= 0
    /\ call.arg.eta_st <= 1000
    /\ ret.states[1].h >= hf(call.arg.P_cond)
    /\ hfg(call.arg.P_cond) > 0

\* C6 amended: for every parameter set with 0 <= eta_st <= 1, boiler exit
\* enthalpy at least hf(P_cond) and hfg(P_cond) > 0, every state record of
\* calculateSteamCycle has x = '-' or a number in [0,1]; the real exit
\* quality is a number exactly when (h_b - hf)/hfg <= 1.
C6_QualityInRangeInDomain ==
    (IsSteamCall /\ SteamInDomain) =>
        /\ \A k \in 1..Len(ret.states) : QualityOK(ret.states[k])
        /\ (ret.states[2].x = NA) <=>
               (ret.states[2].h - hf(call.arg.P_cond) > hfg(call.arg.P_cond))

\* An in-domain steam call has reported a numeric quality strictly inside
\* (0, 1) for the real turbine exit
C6_Witness ==
    /\ IsSteamCall
    /\ SteamInDomain
    /\ ret.states[2].x.isNumber
    /\ ret.states[2].x.thousandths > 0
    /\ ret.states[2].x.thousandths < 1000

\* C7: x_from_s(P, s) is exactly 0 when s <= sf(P), exactly 1 when
\* s >= sg(P), and the quotient (s - sf)/(sg - sf) strictly between; when
\* sf(P) < sg(P) the result is in [0,1], and it is non-decreasing in s.
C7_XFromSClamped ==
    IsXCall =>
        LET P   == call.arg.P
            sv  == call.arg.s
            sfv == sf(P)
            sgv == sg(P)
        IN  /\ sv <= sfv => ret = 0
            /\ (sv > sfv /\ sv >= sgv) => ret = XS
            /\ (sfv < sv /\ sv < sgv) =>
                   /\ Mul6w(sgv - sfv, ret) <= sv - sfv
                   /\ Mul6w(sgv - sfv, ret + 1) + 1 >= sv - sfv
            /\ sfv < sgv => (0 <= ret /\ ret <= XS)
            /\ (prev # None /\ prev.call.fn = call.fn /\ prev.call.arg.P = P
                    /\ prev.call.arg.s <= sv)
                   => prev.ret <= ret

\* Two successive x_from_s calls at one pressure, strictly inside the dome,
\* with increasing entropy and increasing quality
C7_Witness ==
    /\ IsXCall
    /\ prev # None
    /\ prev.call.fn = call.fn
    /\ prev.call.arg.P = call.arg.P
    /\ sf(call.arg.P) < prev.call.arg.s
    /\ prev.call.arg.s < call.arg.s
    /\ call.arg.s < sg(call.arg.P)
    /\ 0 < prev.ret
    /\ prev.ret < ret
    /\ ret < XS

\* The formulas of calculateADHTC, each product rounded down to the unit
\* of its result
ADFormulas ==
    LET p == call.arg
    IN  /\ ret.m_total = p.m_biomass
        /\ ret.m_rich * 1000 <= p.m_biomass * p.moisture_split
        /\ p.m_biomass * p.moisture_split < (ret.m_rich + 1) * 1000
        /\ ret.m_lean * 1000 <= p.m_biomass * (1000 - p.moisture_split)
        /\ p.m_biomass * (1000 - p.moisture_split) < (ret.m_lean + 1) * 1000
        /\ ret.biogas_vol * 1000 <= ret.m_rich * p.ad_yield
        /\ ret.m_rich * p.ad_yield < (ret.biogas_vol + 1) * 1000
        /\ ret.m_biogas * 100 <= 115 * ret.biogas_vol
        /\ 115 * ret.biogas_vol < (ret.m_biogas + 1) * 100
        /\ ret.htc_energy * 100 <= ret.m_lean * 15 * (p.htc_temp - 29800)
        /\ ret.m_lean * 15 * (p.htc_temp - 29800) < (ret.htc_energy + 1) * 100

\* Feed 5 kg/s, split 0.6, yield 0.4 m^3/kg gives 3, 2, 1.2 and 1.38
ADExample ==
    (call.arg.m_biomass = 500 /\ call.arg.moisture_split = 600
        /\ call.arg.ad_yield = 400) =>
            /\ ret.m_rich = 300
            /\ ret.m_lean = 200
            /\ ret.biogas_vol = 120
            /\ ret.m_biogas = 138

ADInDomain ==
    /\ call.arg.moisture_split >= 0
    /\ call.arg.moisture_split <= 1000
    /\ call.arg.m_biomass >= 0

\* C10 as stated: calculateADHTC computes the five formulas, and for every
\* split in [0,1] and m_biomass >= 0 both streams are non-negative and
\* m_rich + m_lean = m_total exactly.
C10_MassBalanceExact ==
    IsADCall =>
        /\ ADFormulas
        /\ ADExample
        /\ ADInDomain =>
               /\ ret.m_rich >= 0
               /\ ret.m_lean >= 0
               /\ ret.m_rich + ret.m_lean = ret.m_total

\* C10 amended: calculateADHTC computes the five formulas, and for every
\* split in [0,1] and m_biomass >= 0 both streams are non-negative and
\* m_rich + m_lean equals m_total up to the rounding of the two products,
\* within one unit in the last place; the example values hold to that
\* rounding.
C10_MassBalanceRounded ==
    IsADCall =>
        /\ ADFormulas
        /\ ADExample
        /\ ADInDomain =>
               /\ ret.m_rich >= 0
               /\ ret.m_lean >= 0
               /\ Abs(ret.m_rich + ret.m_lean - ret.m_total) <= 1

\* calculateADHTC has returned two streams whose sum falls short of the
\* feed by the rounding of the products
C10_Witness ==
    /\ IsADCall
    /\ ADInDomain
    /\ ret.m_rich > 0
    /\ ret.m_lean > 0
    /\ ret.m_rich + ret.m_lean = ret.m_total - 1

-----------------------------------------------------------------------------
(* 5. The solver loops, one iteration per step                             *)
(*                                                                         *)
(* solver.pc is "idle", "loop" (at the loop test) or "done" (returned);    *)
(* i is the loop variable, steps the number of loop bodies executed.  A    *)
(* comparison on NaN is false: Math.log of a negative pressure ratio makes *)
(* the gas entropy NaN.                                                    *)

\* The loop test with <= in place of <
ForCond_inclusive(i, n) == i <= n

\* for (let i = ...; i < n; i++)
ForCond(i, n) == i < n

BisectionFns == {"T_isentropic", "T_from_s_super", "P_sat"}
SimpsonFns == {"h", "s"}

\* Inputs of the step-by-step runs: compressor and turbine at the design
\* point, at pressure ratio 200 (root outside the bracket), a negative
\* exit pressure (NaN), and steam and saturation inputs inside and outside
\* the brackets
BisectionInputs ==
    {[fn |-> "T_isentropic", T1 |-> 29800, P1 |-> 101325, P2 |-> 1013250],
     [fn |-> "T_isentropic", T1 |-> 140000, P1 |-> 972720, P2 |-> 103351],
     [fn |-> "T_isentropic", T1 |-> 29800, P1 |-> 101325, P2 |-> 20265000],
     [fn |-> "T_isentropic", T1 |-> 140000, P1 |-> 19454400, P2 |-> 103351],
     [fn |-> "T_isentropic", T1 |-> 29800, P1 |-> 101325, P2 |-> -101325],
     [fn |-> "T_from_s_super", P |-> 10000, s_target |-> 8500000],
     [fn |-> "T_from_s_super", P |-> 10000, s_target |-> 6779136],
     [fn |-> "P_sat", T |-> 37315],
     [fn |-> "P_sat", T |-> 20000]}

SimpsonInputs ==
    {[fn |-> "h", T |-> 29800], [fn |-> "h", T |-> 140000],
     [fn |-> "s", T |-> 140000, P |-> 972720],
     [fn |-> "s", T |-> 61404, P |-> 1013250],
     [fn |-> "s", T |-> 25000, P |-> 101325]}

\* The comparison of an input is on NaN
IsNaN(a) == a.fn = "T_isentropic" /\ (a.P1 <= 0 \/ a.P2 <= 0)

\* let lo = ..., hi = ...
BracketLo(a) ==
    CASE a.fn = "T_isentropic" -> TisoLo(a.T1)
      [] a.fn = "T_from_s_super" -> T_sat(a.P)
      [] a.fn = "P_sat" -> PsatLo
BracketHi(a) ==
    CASE a.fn = "T_isentropic" -> TisoHi(a.T1)
      [] a.fn = "T_from_s_super" -> TfsHi
      [] a.fn = "P_sat" -> PsatHi

\* Five iterations for every loop
Iterations_five(fn) == 5

\* The iteration count written in each loop header
Iterations(fn) ==
    CASE fn = "T_isentropic" -> BisectN
      [] fn = "T_from_s_super" -> BisectN
      [] fn = "P_sat" -> PsatN
      [] fn \in SimpsonFns -> SimpsonN

\* const s_target = s(T1, P1), or the argument searched for
Target(a) ==
    CASE a.fn = "T_isentropic" -> IF IsNaN(a) THEN 0 ELSE s(a.T1, a.P1)
      [] a.fn = "T_from_s_super" -> a.s_target
      [] a.fn = "P_sat" -> a.T

\* The function bisected, at mid
Probe(a, mid) ==
    CASE a.fn = "T_isentropic" -> s(mid, a.P2)
      [] a.fn = "T_from_s_super" -> s_super(a.P, mid)
      [] a.fn = "P_sat" -> T_sat(mid)

\* The comparison with its two outcomes exchanged
ProbeLess_swapped(a, mid, target) ==
    IF IsNaN(a) THEN FALSE ELSE Probe(a, mid) >= target

\* if (f(mid) < target)
ProbeLess(a, mid, target) == IF IsNaN(a) THEN FALSE ELSE Probe(a, mid) < target

BisectionStart ==
    /\ solver.pc = "idle"
    /\ \E a \in BisectionInputs :
           solver' = [pc |-> "loop", fn |-> a.fn, arg |-> a, i |-> 0,
                      steps |-> 0, lo |-> BracketLo(a), hi |-> BracketHi(a),
                      target |-> Target(a), sum |-> 0, result |-> 0]
    /\ UNCHANGED <<coreVars, flow, appVars>>

BisectionStep ==
    /\ solver.pc = "loop"
    /\ solver.fn \in BisectionFns
    /\ ForCond(solver.i, Iterations(solver.fn))
    /\ LET mid == Mid(solver.lo, solver.hi)
       IN  IF ProbeLess(solver.arg, mid, solver.target)
           THEN solver' = [solver EXCEPT !.lo = mid, !.i = @ + 1,
                                         !.steps = @ + 1]
           ELSE solver' = [solver EXCEPT !.hi = mid, !.i = @ + 1,
                                         !.steps = @ + 1]
    /\ UNCHANGED <<coreVars, flow, appVars>>

BisectionExit ==
    /\ solver.pc = "loop"
    /\ solver.fn \in BisectionFns
    /\ ~ForCond(solver.i, Iterations(solver.fn))
    /\ solver' = [solver EXCEPT !.pc = "done",
                                !.result = Mid(solver.lo, solver.hi)]
    /\ UNCHANGED <<coreVars, flow, appVars>>

\* The integrand at node i, and the first and last terms of the sum
SimpsonNode(a, i) ==
    IF a.fn = "h" THEN cp((i * a.T) \div SimpsonN)
    ELSE cpOverT(T_ref + (i * (a.T - T_ref)) \div SimpsonN)
SimpsonFirst(a) == IF a.fn = "h" THEN cp(100) ELSE cpOverT(T_ref)
SimpsonLast(a) == IF a.fn = "h" THEN cp(a.T) ELSE cpOverT(a.T)

\* return (dT / 3) * sum [- R_air * Math.log(P / P_ref)]
SimpsonReturn(a, sum) ==
    IF a.fn = "h" THEN MulDiv(sum \div 6, a.T, 1000) \div 100
    ELSE MulDiv(sum \div 600, a.T - T_ref, 1000) \div 10
             - MulDiv(Ln(a.P, P_ref), R_air, 1000)

SimpsonStart ==
    /\ solver.pc = "idle"
    /\ \E a \in SimpsonInputs :
           solver' = [pc |-> "loop", fn |-> a.fn, arg |-> a, i |-> 1,
                      steps |-> 0, lo |-> 0, hi |-> 0, target |-> 0,
                      sum |-> SimpsonFirst(a), result |-> 0]
    /\ UNCHANGED <<coreVars, flow, appVars>>

SimpsonStep ==
    /\ solver.pc = "loop"
    /\ solver.fn \in SimpsonFns
    /\ ForCond(solver.i, Iterations(solver.fn))
    /\ solver' = [solver EXCEPT
                     !.sum = @ + SimpsonWeight(solver.i)
                                   * SimpsonNode(solver.arg, solver.i),
                     !.i = @ + 1, !.steps = @ + 1]
    /\ UNCHANGED <<coreVars, flow, appVars>>

SimpsonExit ==
    /\ solver.pc = "loop"
    /\ solver.fn \in SimpsonFns
    /\ ~ForCond(solver.i, Iterations(solver.fn))
    /\ solver' = [solver EXCEPT
                     !.pc = "done",
                     !.result = SimpsonReturn(solver.arg,
                                    solver.sum + SimpsonLast(solver.arg))]
    /\ UNCHANGED <<coreVars, flow, appVars>>

\* The caller takes the result; the next call can start
SolverReturn ==
    /\ solver.pc = "done"
    /\ solver' = Idle
    /\ UNCHANGED <<coreVars, flow, appVars>>

SolverStep ==
    \/ BisectionStep
    \/ BisectionExit
    \/ SimpsonStep
    \/ SimpsonExit

NextSolver ==
    \/ BisectionStart
    \/ SimpsonStart
    \/ SolverStep
    \/ SolverReturn

SpecSolver == InitCore /\ [][NextSolver]_vars

\* A started loop is run to completion: the code is synchronous
SpecSolverLive == SpecSolver /\ WF_vars(SolverStep)

-----------------------------------------------------------------------------
(* Properties of the solver loops                                          *)

TisoRun == solver.pc # "idle" /\ solver.fn = "T_isentropic"
TisoDone == solver.pc = "done" /\ solver.fn = "T_isentropic"

\* The root of f(T) = target is bracketed by lo and hi: f(lo) < target <= f(hi)
Bracketed(a, lo, hi, target) ==
    /\ ~IsNaN(a)
    /\ Probe(a, lo) < target
    /\ target <= Probe(a, hi)

\* The root is bracketed by the initial lo and hi
RootInBracket(a) == Bracketed(a, BracketLo(a), BracketHi(a), Target(a))

\* w0 = w * 2^n
RECURSIVE HalvedExactly(_, _, _)
HalvedExactly(w0, w, n) ==
    IF n = 0 THEN w0 = w
    ELSE w0 % 2 = 0 /\ HalvedExactly(w0 \div 2, w, n - 1)

\* w0 halved n times, each half rounded up to the resolution
RECURSIVE HalvedRounded(_, _)
HalvedRounded(w0, n) ==
    IF n = 0 \/ w0 <= 1 THEN w0 ELSE HalvedRounded((w0 + 1) \div 2, n - 1)

\* C8 as stated: for any T1, P1, P2, on exit of T_isentropic the root of
\* s(., P2) = s(T1, P1) lies between lo and hi and hi - lo is the initial
\* width 3.1*T1 divided by 2^80.
C8_RoundTripAnyInput ==
    TisoDone =>
        /\ ~IsNaN(solver.arg)
        /\ Probe(solver.arg, solver.lo) <= solver.target
        /\ solver.target <= Probe(solver.arg, solver.hi)
        /\ HalvedExactly(BracketHi(solver.arg) - BracketLo(solver.arg),
                         solver.hi - solver.lo, BisectN)

\* C8 amended: for T1, P1, P2 with positive pressures and
\* s(0.4*T1, P2) < s(T1, P1) <= s(3.5*T1, P2), the root stays between lo and
\* hi through every iteration; after i iterations hi - lo is at most the
\* initial width halved i times with each half rounded to the resolution of
\* the numbers, so on exit it is at most one unit of resolution (and not
\* 3.1*T1/2^80); the returned T2 is the result of T_isentropic(T1, P1, P2),
\* lies between lo and hi, and s(T2, P2) differs from s(T1, P1) by at most
\* s(hi, P2) - s(lo, P2).
C8_RoundTripInBracket ==
    (TisoRun /\ RootInBracket(solver.arg)) =>
        LET a == solver.arg
        IN  /\ Bracketed(a, solver.lo, solver.hi, solver.target)
            /\ solver.lo <= solver.hi
            /\ solver.hi - solver.lo
                   <= HalvedRounded(BracketHi(a) - BracketLo(a), solver.steps)
            /\ solver.pc = "done" =>
                   /\ solver.hi - solver.lo <= 1
                   /\ solver.result = T_isentropic(a.T1, a.P1, a.P2)
                   /\ solver.lo <= solver.result
                   /\ solver.result <= solver.hi
                   /\ Abs(Probe(a, solver.result) - solver.target)
                          <= Probe(a, solver.hi) - Probe(a, solver.lo)

\* T_isentropic has returned for an input whose root is in the bracket,
\* with a final bracket one unit wide
C8_Witness ==
    /\ TisoDone
    /\ RootInBracket(solver.arg)
    /\ solver.steps = BisectN
    /\ solver.hi - solver.lo = 1

\* The number of loop bodies each solver executes
LoopCount(fn) ==
    CASE fn = "T_isentropic" -> 80
      [] fn = "T_from_s_super" -> 80
      [] fn = "P_sat" -> 60
      [] fn = "h" -> 199
      [] fn = "s" -> 199

\* A loop has executed at most its fixed count, and exactly that on return
FixedIterations ==
    solver.pc # "idle" =>
        /\ solver.steps <= LoopCount(solver.fn)
        /\ solver.pc = "done" => solver.steps = LoopCount(solver.fn)

\* C9: every solver loop runs a fixed number of iterations whatever its
\* input (T_isentropic and T_from_s_super 80, P_sat 60, the Simpson loops
\* of h and s 199) and then returns, also when the comparison is on NaN or
\* the root is outside the bracket.
C9_FixedIterationsTerminate ==
    /\ []FixedIterations
    /\ (solver.pc = "loop") ~> (solver.pc = "done")

\* T_isentropic has returned after 80 iterations on a NaN comparison
C9_Witness ==
    /\ TisoDone
    /\ IsNaN(solver.arg)
    /\ solver.steps = 80


-----------------------------------------------------------------------------
(* 6. The page                                                             *)
(*                                                                         *)
(* The analyse click handler runs to completion as one step; the charts    *)
(* are drawn later by the timer callback it scheduled.  A Chart instance   *)
(* is kept as the canvas it draws on, its state-point markers (the process *)
(* curves interpolate between the same points, the saturation dome does    *)
(* not depend on the states) and whether destroy() has been called on it.  *)

\* Analyse clicks explored
MaxClicks == 3

\* Number.prototype.toFixed: v in units of d, rounded to the nearest
toFixed(v, d) ==
    IF v >= 0 THEN (v + d \div 2) \div d ELSE -((d \div 2 - v) \div d)

\* (a / b) * 100 with one decimal, in per mille
Percent(a, b) == toFixed(DivDigits(a, b, 4), 10)

Metric(label, unit, value) == [label |-> label, unit |-> unit, value |-> value]

populatePerformance(gas, steam, p) ==
    <<Metric("Net Gas Cycle Work", "kJ/kg", toFixed(gas.w_net, 100)),
      Metric("Net Steam Cycle Work", "kJ/kg", toFixed(steam.w_net, 100)),
      Metric("Gas Cycle Efficiency", "%", Percent(gas.w_net, gas.q_in)),
      Metric("Steam Cycle Efficiency", "%",
             IF steam.q_boiler > 0 THEN Percent(steam.w_net, steam.q_boiler)
             ELSE 0),
      Metric("Back Work Ratio", "%", Percent(gas.w_c, gas.w_t)),
      Metric("Biogas Heat Input", "kJ/kg", toFixed(gas.q_in, 100)),
      Metric("Gas Cycle Power", "MW",
             toFixed(MulDiv(gas.w_net, p.m_air, 1000), 1000)),
      Metric("GT Exhaust Temp", "K", toFixed(gas.states[5].T, 100))>>

populateADMetrics(ad, gas, p) ==
    <<Metric("Total Biomass Feed", "kg/s", toFixed(ad.m_total, 1)),
      Metric("Moisture-Rich (AD)", "kg/s", toFixed(ad.m_rich, 1)),
      Metric("Moisture-Lean (HTC)", "kg/s", toFixed(ad.m_lean, 1)),
      Metric("Biogas Production", "m3/s", toFixed(ad.biogas_vol, 1)),
      Metric("Biogas Mass Flow", "kg/s", toFixed(ad.m_biogas, 1)),
      Metric("Fuel Demand (Combustor)", "kg/s", toFixed(gas.m_fuel, 1000)),
      Metric("HTC Thermal Energy", "MW", toFixed(ad.htc_energy, 10000)),
      Metric("HTC Reactor Temp", "K", toFixed(p.htc_temp, 100))>>

\* One table row: T, P and h with one decimal, s with four, and the x cell
\* only when the record has an x
Row(st) ==
    IF "x" \in DOMAIN st
    THEN [id |-> st.id, label |-> st.label, T |-> toFixed(st.T, 10),
          P |-> toFixed(st.P, 100), h |-> toFixed(st.h, 100),
          s |-> toFixed(st.s, 100), x |-> st.x]
    ELSE [id |-> st.id, label |-> st.label, T |-> toFixed(st.T, 10),
          P |-> toFixed(st.P, 100), h |-> toFixed(st.h, 100),
          s |-> toFixed(st.s, 100)]

populateTable(states) == [k \in 1..Len(states) |-> Row(states[k])]

\* sm[id] after steamStates.forEach(s => { sm[s.id] = s; })
StateById(states, id) ==
    states[CHOOSE k \in 1..Len(states) :
               /\ states[k].id = id
               /\ \A j \in (k + 1)..Len(states) : states[j].id # id]

\* The old instance left as it is
Destroy_none(heap, ref) == heap

\* if (chart) chart.destroy()
Destroy(heap, ref) ==
    IF ref = 0 THEN heap ELSE [heap EXCEPT ![ref].destroyed = TRUE]

\* new Chart(ctx, ...)
NewChart(canvas, points) ==
    [canvas |-> canvas, points |-> points, destroyed |-> FALSE]

\* The markers of the h-s chart: states d, a, b, c as (s, h)
HSPoints(steamStates) ==
    [k \in 1..4 |->
        With(StateById(steamStates, <<"d", "a", "b", "c">>[k]), LAMBDA st :
            [x |-> st.s, y |-> st.h])]

\* The markers of the T-H chart: the first state at 0, then the end state
\* of the processes 1-2, 3-4 and 4-5 at the accumulated |dh|
THPoints(gasStates) ==
    With(Abs(gasStates[2].h - gasStates[1].h), LAMBDA d1 :
    With(d1 + Abs(gasStates[4].h - gasStates[3].h), LAMBDA d2 :
    With(d2 + Abs(gasStates[5].h - gasStates[4].h), LAMBDA d3 :
        <<[x |-> 0, y |-> gasStates[1].T], [x |-> d1, y |-> gasStates[2].T],
          [x |-> d2, y |-> gasStates[4].T], [x |-> d3, y |-> gasStates[5].T]>>)))

\* The h-s chart drawn only while there is none yet
renderHSChart_once(heap, steamStates) ==
    IF hsChart # 0 THEN heap
    ELSE Append(heap, NewChart("hs-chart", HSPoints(steamStates)))

\* The heap after renderHSChart / renderTHdotChart; the new instance is the
\* last one
renderHSChart(heap, steamStates) ==
    Append(Destroy(heap, hsChart), NewChart("hs-chart", HSPoints(steamStates)))
renderTHdotChart(heap, gasStates) ==
    Append(Destroy(heap, thChart), NewChart("th-chart", THPoints(gasStates)))

\* One entry of the evaluation history
Evaluation(fn, p, result) ==
    [click |-> clicks + 1, fn |-> fn, arg |-> p, result |-> result]

\* The user types other values into the form
EditInputs ==
    /\ \E f \in FormInputs \ {inputs} : inputs' = f
    /\ UNCHANGED <<modalActive, overflow, perfMetrics, adMetrics,
                   gasTableBody, steamTableBody, timers, charts, hsChart,
                   thChart, evalLog, clicks, objects,
                   coreVars, solver, flow>>

\* The names a function assigns through: its own variables and, for the
\* chart renderers, the module's chart reference.  sm[s.id] = s (line 306)
\* writes sm; .reverse() (line 334) reverses the array dome.map returned;
\* push and unshift act on arrays the function created; states.map and
\* steamStates.forEach only read their receiver.
Writes_sortingTable(fn) ==
    IF fn = "populateTable" THEN {"tbody", "states"} ELSE {}

Writes(fn) ==
    CASE fn = "calculateGasCycle" -> {"states"}
      [] fn = "calculateSteamCycle" ->
            {"states", "hb_s", "xb_s", "Tb", "xb", "sb"}
      [] fn = "calculateADHTC" -> {}
      [] fn = "populatePerformance" -> {"container"}
      [] fn = "populateADMetrics" -> {"container"}
      [] fn = "populateTable" -> {"tbody"}
      [] fn = "renderHSChart" -> {"sm", "datasets", "vap", "hsChart"}
      [] fn = "renderTHdotChart" ->
            {"datasets", "cumH", "data", "mCum", "markers", "thChart"}

\* An array after an in-place write (reverse, sort), a record after an
\* assignment to its fields
Reversed(arr) == [k \in 1..Len(arr) |-> arr[Len(arr) + 1 - k]]
Overwritten(rec) ==
    [f \in DOMAIN rec |-> IF f = "states" THEN Reversed(rec[f]) ELSE rec[f] + 1]

\* What fn leaves of the array or record passed as its parameter param
ArrayAfter(fn, param, arr) ==
    IF param \in Writes(fn) THEN Reversed(arr) ELSE arr
RecordAfter(fn, param, rec) ==
    IF param \in Writes(fn) THEN Overwritten(rec) ELSE rec

\* The objects of one click after populatePerformance(gasResult,
\* steamResult, p), populateADMetrics(adResult, gasResult, p),
\* populateTable(id, result.states), renderHSChart(steamResult.states) and
\* renderTHdotChart(gasResult.states)
AfterPopulatePerformance(o) ==
    [o EXCEPT !.gasResult = RecordAfter("populatePerformance", "gas", @),
              !.steamResult = RecordAfter("populatePerformance", "steam", @),
              !.p = RecordAfter("populatePerformance", "p", @)]
AfterPopulateADMetrics(o) ==
    [o EXCEPT !.adResult = RecordAfter("populateADMetrics", "ad", @),
              !.gasResult = RecordAfter("populateADMetrics", "gas", @),
              !.p = RecordAfter("populateADMetrics", "p", @)]
AfterPopulateTable(o, result) ==
    [o EXCEPT ![result].states = ArrayAfter("populateTable", "states", @)]
AfterRenderHSChart(o) ==
    [o EXCEPT !.steamResult.states =
                  ArrayAfter("renderHSChart", "steamStates", @)]
AfterRenderTHdotChart(o) ==
    [o EXCEPT !.gasResult.states =
                  ArrayAfter("renderTHdotChart", "gasStates", @)]

\* The state changes of the click handler once p and the three results
\* are bound: the consumers run in the source's order, each on the objects
\* as the one before left them
Report(p, gasResult, steamResult, adResult) ==
    \E o0 \in {[p |-> p, gasResult |-> gasResult,
                steamResult |-> steamResult, adResult |-> adResult]} :
    \E o1 \in {AfterPopulatePerformance(o0)} :
    \E o2 \in {AfterPopulateADMetrics(o1)} :
    \E o3 \in {AfterPopulateTable(o2, "gasResult")} :
        /\ modalActive' = TRUE
        /\ overflow' = "hidden"
        /\ perfMetrics' =
               populatePerformance(o0.gasResult, o0.steamResult, o0.p)
        /\ adMetrics' = populateADMetrics(o1.adResult, o1.gasResult, o1.p)
        /\ timers' = Append(timers, [click |-> clicks + 1])
        /\ gasTableBody' = populateTable(o2.gasResult.states)
        /\ steamTableBody' = populateTable(o3.steamResult.states)
        /\ objects' = Append(objects, AfterPopulateTable(o3, "steamResult"))

\* analyseBtn click: p is passed to the three evaluators in turn
AnalyseClick ==
    /\ clicks < MaxClicks
    /\ \E p \in {getParams(inputs)} :
       \E gasResult \in {GasCycleOf[p]} :
       \E p1 \in {RecordAfter("calculateGasCycle", "p", p)} :
       \E steamResult \in {SteamCycleOf[p1]} :
       \E p2 \in {RecordAfter("calculateSteamCycle", "p", p1)} :
       \E adResult \in {calculateADHTC(p2)} :
           /\ evalLog' = evalLog \cup
                  {Evaluation("calculateGasCycle", p, gasResult),
                   Evaluation("calculateSteamCycle", p1, steamResult),
                   Evaluation("calculateADHTC", p2, adResult)}
           /\ Report(RecordAfter("calculateADHTC", "p", p2),
                     gasResult, steamResult, adResult)
    /\ clicks' = clicks + 1
    /\ UNCHANGED <<inputs, charts, hsChart, thChart, coreVars, solver, flow>>

\* The callback of the oldest pending setTimeout runs on the objects its
\* closure holds
TimerFire ==
    /\ timers # <<>>
    /\ \E k \in {Head(timers).click} :
       \E o1 \in {AfterRenderHSChart(objects[k])} :
       \E heap1 \in {renderHSChart(charts, objects[k].steamResult.states)} :
       \E heap2 \in {renderTHdotChart(heap1, o1.gasResult.states)} :
           /\ charts' = heap2
           /\ hsChart' = Len(heap1)
           /\ thChart' = Len(heap2)
           /\ objects' = [objects EXCEPT ![k] = AfterRenderTHdotChart(o1)]
    /\ timers' = Tail(timers)
    /\ UNCHANGED <<inputs, modalActive, overflow, perfMetrics, adMetrics,
                   gasTableBody, steamTableBody, evalLog, clicks, coreVars,
                   solver, flow>>

\* The class removed and the scroll lock left in place
CloseModal_keepLock == modalActive' = FALSE /\ overflow' = overflow

\* modal.classList.remove('active'); document.body.style.overflow = ''
CloseModal == modalActive' = FALSE /\ overflow' = ""

\* What the modal handlers leave alone
PageContent ==
    <<inputs, perfMetrics, adMetrics, gasTableBody, steamTableBody, timers,
      charts, hsChart, thChart, evalLog, clicks, objects>>

\* closeBtn click
CloseClick ==
    /\ CloseModal
    /\ UNCHANGED <<inputs, perfMetrics, adMetrics, gasTableBody,
                   steamTableBody, timers, charts, hsChart, thChart, evalLog,
                   clicks, objects,
                   coreVars, solver, flow>>

\* e => { if (e.target === modal) { ... } }
ModalClickOn(target) ==
    /\ IF target = "modal" THEN CloseModal
       ELSE UNCHANGED <<modalActive, overflow>>
    /\ UNCHANGED <<PageContent, coreVars, solver, flow>>

\* modal click, on the backdrop itself or on something inside it
ModalClick == \E target \in {"modal", "content"} : ModalClickOn(target)

\* e => { if (e.key === 'Escape' && modal.classList.contains('active')) ... }
KeyDownOn(key) ==
    /\ IF key = "Escape" /\ modalActive THEN CloseModal
       ELSE UNCHANGED <<modalActive, overflow>>
    /\ UNCHANGED <<PageContent, coreVars, solver, flow>>

\* document keydown
KeyDown == \E key \in {"Escape", "Enter"} : KeyDownOn(key)

Init == NoCall /\ PageLoaded /\ inputs \in FormInputs

Next ==
    \/ EditInputs
    \/ AnalyseClick
    \/ TimerFire
    \/ CloseClick
    \/ ModalClick
    \/ KeyDown

Spec == Init /\ [][Next]_vars

-----------------------------------------------------------------------------
(* Properties of the page                                                  *)

\* Equal evaluator and equal parameter set give equal results
EvalDeterministic ==
    \A e1, e2 \in evalLog :
        (e1.fn = e2.fn /\ e1.arg = e2.arg) => e1.result = e2.result

\* A step that evaluates leaves the chart references and instances alone
EvalLeavesCharts ==
    evalLog' # evalLog =>
        (hsChart' = hsChart /\ thChart' = thChart /\ charts' = charts)

\* C1: two calls of calculateGasCycle, calculateSteamCycle or calculateADHTC
\* with equal parameter sets return equal results whatever evaluations,
\* analyse clicks, chart renders and modal events lie between them, and no
\* evaluation changes hsChart or thChart.
C1_EvaluationDeterministic ==
    []EvalDeterministic /\ [][EvalLeavesCharts]_vars

\* Each evaluator has been called twice with one parameter set, with a
\* click on another parameter set, a chart render and a closing of the
\* modal in between
C1_Witness ==
    /\ hsChart # 0
    /\ thChart # 0
    /\ ~modalActive
    /\ \E e1, e2, e3 \in evalLog :
           /\ e1.click < e3.click
           /\ e3.click < e2.click
           /\ e1.arg = e2.arg
           /\ e3.arg # e1.arg
           /\ e1.fn = "calculateADHTC"
           /\ e2.fn = "calculateADHTC"
    /\ \A fn \in {"calculateGasCycle", "calculateSteamCycle", "calculateADHTC"} :
           \E e1, e2 \in evalLog :
               e1.fn = fn /\ e2.fn = fn /\ e1.click # e2.click
                   /\ e1.arg = e2.arg


\* The object evalLog entry e recorded, as it is now
ObjectOf(e) ==
    objects[e.click][CASE e.fn = "calculateGasCycle" -> "gasResult"
                       [] e.fn = "calculateSteamCycle" -> "steamResult"
                       [] e.fn = "calculateADHTC" -> "adResult"]

\* C13: every cycle result, with its states array and state records, is
\* still what its evaluator returned, and every parameter set still what
\* getParams returned and what each evaluator was given, after
\* populatePerformance, populateADMetrics, populateTable and, from the
\* timer callback, renderHSChart and renderTHdotChart have run on them
C13_NeverMutated ==
    \A e \in evalLog :
        /\ ObjectOf(e) = e.result
        /\ objects[e.click].p = e.arg

\* Two clicks have been reported and the charts of both drawn
C13_Witness ==
    /\ Len(objects) >= 2
    /\ timers = <<>>
    /\ Len(charts) >= 4
    /\ gasTableBody # <<>>
    /\ steamTableBody # <<>>
    /\ \E e \in evalLog : e.click = 1 /\ e.fn = "calculateSteamCycle"

-----------------------------------------------------------------------------
(* 7. calculateGasCycle and calculateSteamCycle, statement by statement.    *)
(*                                                                         *)
(* Every parameter is a JavaScript number.  The operators + - * / and <,   *)
(* <=, Math.log, Math.sqrt and Math.pow return a number (NaN and +-Infinity *)
(* included) for every pair of numbers and never raise, so a run is         *)
(* followed through its statements by the type of what each one leaves     *)
(* behind.  The only method called on a value that is not always a number  *)
(* is xb.toFixed(3) at line 246.  For a parameter set of SteamParamSets    *)
(* the two comparisons come out as the fixed-point evaluation says; for a  *)
(* set outside it (zero or negative efficiencies, pressures, heating       *)
(* value) either outcome is followed.                                      *)

Stmt(line, op) == [line |-> line, op |-> op, id |-> "", skip |-> 0]
PushStmt(line, id) == [line |-> line, op |-> "push", id |-> id, skip |-> 0]
\* if (cond) { n statements } else { ... }: skip n when cond is false
IfStmt(line, n) == [line |-> line, op |-> "if", id |-> "", skip |-> n]
\* the last statement of a then-block jumps over the n of the else-block
LastOfThen(line, op, n) == [line |-> line, op |-> op, id |-> "", skip |-> n]

\* lines 168-209
GasProgram ==
    << Stmt(169, "array"), Stmt(172, "const"), PushStmt(173, "1"),
       Stmt(176, "const"), Stmt(177, "const"), Stmt(178, "const"),
       Stmt(179, "const"), Stmt(180, "const"), PushStmt(181, "2"),
       Stmt(184, "const"), Stmt(185, "const"), PushStmt(186, "3"),
       Stmt(189, "const"), PushStmt(190, "4"),
       Stmt(193, "const"), Stmt(194, "const"), Stmt(195, "const"),
       Stmt(196, "const"), Stmt(197, "const"), PushStmt(198, "5"),
       Stmt(201, "const"), Stmt(202, "const"), Stmt(203, "const"),
       Stmt(204, "const"), Stmt(207, "const"), Stmt(209, "return") >>

\* lines 214-268
SteamProgram ==
    << Stmt(215, "array"), Stmt(216, "const"), Stmt(219, "const"),
       Stmt(220, "const"), PushStmt(221, "a"),
       Stmt(224, "const"), Stmt(225, "const"), Stmt(226, "let"),
       IfStmt(227, 3),
           Stmt(228, "assign"), Stmt(229, "assign"),
           LastOfThen(230, "assign", 3),
           Stmt(232, "assign"), Stmt(233, "assign"), Stmt(234, "assign"),
       Stmt(236, "const"), Stmt(237, "let xb"), Stmt(238, "let"),
       IfStmt(239, 2),
           Stmt(240, "assign"), LastOfThen(241, "assign", 2),
           Stmt(243, "assign"), Stmt(244, "xb = '-'"),
       PushStmt(246, "b"),
       Stmt(249, "const"), Stmt(250, "const"), PushStmt(251, "c"),
       Stmt(254, "const"), Stmt(255, "const"), Stmt(256, "const"),
       Stmt(257, "const"), Stmt(258, "const"), Stmt(259, "const"),
       PushStmt(260, "d"),
       Stmt(262, "const"), Stmt(263, "const"), Stmt(264, "const"),
       Stmt(265, "const"), Stmt(266, "const"), Stmt(268, "return") >>

Program(fn) == IF fn = "calculateGasCycle" THEN GasProgram ELSE SteamProgram

\* return { states, w_c, w_t, q_in, w_net, m_fuel, T_exhaust: T5 }  and
\* return { states, w_st, w_fp, q_boiler, q_cond, w_net }
Returned(fn, states) ==
    IF fn = "calculateGasCycle"
    THEN [states |-> states, w_c |-> "number", w_t |-> "number",
          q_in |-> "number", w_net |-> "number", m_fuel |-> "number",
          T_exhaust |-> "number"]
    ELSE [states |-> states, w_st |-> "number", w_fp |-> "number",
          q_boiler |-> "number", q_cond |-> "number", w_net |-> "number"]

\* Parameter sets with a zero or negative efficiency, pressure or heating
\* value
IrregularParams ==
    {[getParams(DesignPoint) EXCEPT !.eta_c = 0],
     [getParams(DesignPoint) EXCEPT !.eta_c = -860],
     [getParams(DesignPoint) EXCEPT !.eta_t = -890],
     [getParams(DesignPoint) EXCEPT !.eta_st = -850],
     [getParams(DesignPoint) EXCEPT !.eta_fp = 0],
     [getParams(DesignPoint) EXCEPT !.P1 = 0],
     [getParams(DesignPoint) EXCEPT !.P1 = -101325],
     [getParams(DesignPoint) EXCEPT !.P_cond = 0],
     [getParams(DesignPoint) EXCEPT !.P_boiler = -4000000],
     [getParams(DesignPoint) EXCEPT !.LHV = 0],
     [getParams(DesignPoint) EXCEPT !.LHV = -20000]}

FlowParamSets == FormParams \cup IrregularParams

\* The outcomes of sb_s < sg_c (line 227) and of xb <= 1 (line 239)
CondOutcomes(p, line) ==
    IF p \in IrregularParams THEN BOOLEAN
    ELSE IF line = 227 THEN {IdealExitOf[p].branch = "two-phase"}
    ELSE {SteamCycleOf[p].states[2].x # NA}

\* typeof xb === 'number' ? xb.toFixed(3) : xb  calls toFixed on numbers only
CallsToFixed_always(typeofXb) == TRUE

CallsToFixed(typeofXb) == typeofXb = "number"

\* s.id === 'b' is the one push whose literal calls a method of a variable
Raises(stmt, typeofXb) ==
    stmt.op = "push" /\ stmt.id = "b"
        /\ CallsToFixed(typeofXb) /\ typeofXb # "number"

FlowRunning == flow.status = "running"

Current == Program(flow.fn)[flow.pc]

Advance(n) == flow.pc + 1 + n

\* A call of an evaluator begins
FlowStart ==
    /\ ~FlowRunning
    /\ \E fn \in {"calculateGasCycle", "calculateSteamCycle"},
          p \in FlowParamSets :
           flow' = [status |-> "running", pc |-> 1, fn |-> fn, arg |-> p,
                    states |-> <<>>, typeofXb |-> "undefined",
                    result |-> None]
    /\ UNCHANGED <<coreVars, solver, appVars>>

\* const, let and assignment statements: arithmetic on numbers
FlowAssign ==
    /\ FlowRunning
    /\ Current.op \notin {"push", "if", "return"}
    /\ flow' = [flow EXCEPT
                   !.pc = Advance(Current.skip),
                   !.typeofXb = IF Current.op = "let xb" THEN "number"
                                ELSE IF Current.op = "xb = '-'" THEN "string"
                                ELSE @]
    /\ UNCHANGED <<coreVars, solver, appVars>>

\* if (sb_s < sg_c) and if (xb <= 1)
FlowIf ==
    /\ FlowRunning
    /\ Current.op = "if"
    /\ \E taken \in CondOutcomes(flow.arg, Current.line) :
           flow' = [flow EXCEPT
                       !.pc = Advance(IF taken THEN 0 ELSE Current.skip)]
    /\ UNCHANGED <<coreVars, solver, appVars>>

\* states.push({ ... }); a TypeError leaves the function without a result
FlowPush ==
    /\ FlowRunning
    /\ Current.op = "push"
    /\ flow' = IF Raises(Current, flow.typeofXb)
               THEN [flow EXCEPT !.status = "raised"]
               ELSE [flow EXCEPT !.pc = Advance(0),
                                 !.states = push(@, Current.id)]
    /\ UNCHANGED <<coreVars, solver, appVars>>

FlowReturn ==
    /\ FlowRunning
    /\ Current.op = "return"
    /\ flow' = [flow EXCEPT !.status = "returned",
                            !.result = Returned(flow.fn, flow.states)]
    /\ UNCHANGED <<coreVars, solver, appVars>>

NextFlow == FlowStart \/ FlowAssign \/ FlowIf \/ FlowPush \/ FlowReturn

SpecFlow == InitCore /\ [][NextFlow]_vars

GasFields == {"states", "w_c", "w_t", "q_in", "w_net", "m_fuel", "T_exhaust"}
SteamFields == {"states", "w_st", "w_fp", "q_boiler", "q_cond", "w_net"}

\* C11: a run of calculateGasCycle or calculateSteamCycle never raises,
\* whatever numbers the parameter set holds; it has no result until it
\* returns, and the record it returns has every field and all five
\* (gas) or four (steam) states
C11_AllOrNothing ==
    /\ flow.status # "raised"
    /\ FlowRunning => flow.result = None
    /\ flow.status = "returned" =>
           IF flow.fn = "calculateGasCycle"
           THEN /\ DOMAIN flow.result = GasFields
                /\ flow.result.states = <<"1", "2", "3", "4", "5">>
           ELSE /\ DOMAIN flow.result = SteamFields
                /\ flow.result.states = <<"a", "b", "c", "d">>

\* calculateSteamCycle returned for a parameter set with a zero or negative
\* value after xb became the string '-'
C11_Witness ==
    /\ flow.status = "returned"
    /\ flow.fn = "calculateSteamCycle"
    /\ flow.arg \in IrregularParams
    /\ flow.typeofXb = "string"
    /\ Len(flow.result.states) = 4

-----------------------------------------------------------------------------
(* Further properties of the direct calls (SpecCore)                       *)

\* wp = vf * (Pd - Pc) / eta_fp, as lines 255-256 compute it
PumpWork(p) == MulDiv(MulDiv(p.P_boiler - p.P_cond, vf, 1000), 1000, p.eta_fp)

GasConsts == GasConstsOf[call.arg]

\* C16: in calculateGasCycle T2 = T1 + (T2s - T1) / eta_c is the T of
\* state 2; for 0 < eta_c < 1 and T2s > T1 > 0, T1 < T2s < T2 < T2s / eta_c,
\* and h2 - h1 = (h2s - h1) / eta_c is at least h2s - h1
C16_CompressorExit ==
    IsGasCall =>
        LET c == GasConsts
            eta_c == call.arg.eta_c
        IN  /\ ret.states[2].T = c.T2
            /\ c.T2 = c.T1 + MulDiv(c.T2s - c.T1, 1000, eta_c)
            /\ ret.states[2].h - ret.states[1].h
                   = MulDiv(c.h2s - c.h1, 1000, eta_c)
            /\ (0 < eta_c /\ eta_c < 1000 /\ c.T2s > c.T1 /\ c.T1 > 0) =>
                   /\ c.T1 < c.T2s
                   /\ c.T2s < c.T2
                   /\ c.T2 * eta_c < c.T2s * 1000
                   /\ ret.w_c >= c.h2s - c.h1
                   /\ ret.w_c = ret.states[2].h - ret.states[1].h

\* A gas call with compressor efficiency 0.5 has returned: the real
\* temperature rise and work are twice the ideal ones
C16_Witness ==
    /\ IsGasCall
    /\ call.arg.eta_c = 500
    /\ GasConsts.T2s > call.arg.T1
    /\ ret.states[2].T - call.arg.T1 = 2 * (GasConsts.T2s - call.arg.T1)
    /\ ret.w_c = 2 * (GasConsts.h2s - GasConsts.h1)

\* C17: in calculateGasCycle T5 = T5s + (TIT - T5s) * (1 - eta_t) is the T
\* of state 5 and the returned T_exhaust; for 0 < eta_t < 1 and T5s < TIT it
\* lies strictly between T5s and TIT, it is T5s at eta_t = 1 and TIT at
\* eta_t = 0, and h4 - h5 = eta_t * (h4 - h5s)
C17_TurbineExit ==
    IsGasCall =>
        LET c == GasConsts
            eta_t == call.arg.eta_t
            TIT == call.arg.TIT
        IN  /\ ret.states[5].T = c.T5s + MulDiv(TIT - c.T5s, 1000 - eta_t, 1000)
            /\ ret.T_exhaust = ret.states[5].T
            /\ ret.states[4].h - ret.states[5].h
                   = MulDiv(ret.states[4].h - c.h5s, eta_t, 1000)
            /\ ret.w_t = ret.states[4].h - ret.states[5].h
            /\ (0 < eta_t /\ eta_t < 1000 /\ c.T5s < TIT) =>
                   (c.T5s < ret.T_exhaust /\ ret.T_exhaust < TIT)
            /\ eta_t = 1000 => ret.T_exhaust = c.T5s
            /\ eta_t = 0 => ret.T_exhaust = TIT

\* A gas call with turbine efficiency 0.5 has returned an exhaust
\* temperature halfway between T5s and TIT
C17_Witness ==
    /\ IsGasCall
    /\ call.arg.eta_t = 500
    /\ GasConsts.T5s < ret.T_exhaust
    /\ ret.T_exhaust < call.arg.TIT
    /\ Abs(2 * ret.T_exhaust - (GasConsts.T5s + call.arg.TIT)) <= 1
    /\ ret.w_t > 0

-----------------------------------------------------------------------------
(* 8. Direct calls of the property functions                               *)

\* Temperatures of the band the polynomial is fitted to, 250 K to 2000 K,
\* every CpStep hundredths of a kelvin
CpStep == 500
CpTemperatures == {25000 + k * CpStep : k \in 0..((200000 - 25000) \div CpStep)}

CallCp ==
    \E T \in CpTemperatures :
        /\ call' = [fn |-> "cp", arg |-> T]
        /\ ret' = cp(T)
        /\ UNCHANGED <<prev, solver, flow, appVars>>

\* A double of the dome: a number, or NaN
Num(v) == [nan |-> FALSE, v |-> v]
NaN == [nan |-> TRUE, v |-> 0]

\* for (let i = 0; i < n; i++)
DomeIndices_exclusive(n) == 0..(n - 1)

\* for (let i = 0; i <= n; i++)
DomeIndices(n) == 0..n

\* const P = 5 + (18000 - 5) * (i / n); 0 / 0 is NaN
DomeP(i, n) ==
    IF n = 0 THEN NaN ELSE Num(5000 + MulDiv(18000000 - 5000, i, n))

\* { sf: sf(P), hf: hf(P), sg: sg(P), hg: hg(P), P, T: T_sat(P) }; every
\* property of NaN is NaN
DomeSample(P) ==
    IF P.nan
    THEN [sf |-> NaN, hf |-> NaN, sg |-> NaN, hg |-> NaN, P |-> P, T |-> NaN]
    ELSE [sf |-> Num(sf(P.v)), hf |-> Num(hf(P.v)), sg |-> Num(sg(P.v)),
          hg |-> Num(hg(P.v)), P |-> P, T |-> Num(T_sat(P.v))]

saturationDome(n) ==
    [k \in {i + 1 : i \in DomeIndices(n)} |-> DomeSample(DomeP(k - 1, n))]

\* Sample counts: 0 to MaxDomeN, and the 50 of renderHSChart
MaxDomeN == 10
DomeSizes == 0..MaxDomeN \cup {50}

DomeOf == [n \in DomeSizes |-> saturationDome(n)]

CallDome ==
    \E n \in DomeSizes :
        /\ call' = [fn |-> "saturationDome", arg |-> n]
        /\ ret' = DomeOf[n]
        /\ prev' = Previous
        /\ UNCHANGED <<solver, flow, appVars>>

NextDome == CallDome

SpecDome == InitCore /\ [][NextDome]_vars

-----------------------------------------------------------------------------
(* Further properties of the solver loops (SpecSolver)                     *)

BisectionDone == solver.pc = "done" /\ solver.fn \in BisectionFns

\* The target is above, or below, every value the bisected function takes
\* on the initial bracket (s, s_super and T_sat increase with mid)
TargetAbove(a) == ~IsNaN(a) /\ Target(a) > Probe(a, BracketHi(a))
TargetBelow(a) == ~IsNaN(a) /\ Target(a) < Probe(a, BracketLo(a))

\* C15 as stated: with the target outside the initial bracket the solver
\* returns the midpoint of that bracket
C15_ReturnsInitialMidpoint ==
    (BisectionDone /\ (TargetAbove(solver.arg) \/ TargetBelow(solver.arg)))
        => solver.result = Mid(BracketLo(solver.arg), BracketHi(solver.arg))

\* C15: with the target outside the initial bracket the solver runs all
\* its iterations and returns the midpoint of the bracket they leave, which
\* has closed on one end of the initial bracket: the upper end when the
\* target is above, the lower end when it is below (within one unit of
\* rounding)
C15_ReturnsCollapsedEnd ==
    BisectionDone =>
        /\ solver.steps = LoopCount(solver.fn)
        /\ solver.result = (solver.lo + solver.hi) \div 2
        /\ TargetAbove(solver.arg) =>
               /\ solver.hi = BracketHi(solver.arg)
               /\ solver.result \in {solver.hi - 1, solver.hi}
        /\ TargetBelow(solver.arg) =>
               /\ solver.lo = BracketLo(solver.arg)
               /\ solver.result \in {solver.lo, solver.lo + 1}

\* T_isentropic has returned the upper end of its bracket for a target
\* above it
C15_Witness ==
    /\ BisectionDone
    /\ solver.fn = "T_isentropic"
    /\ TargetAbove(solver.arg)
    /\ solver.steps = 80
    /\ solver.result >= BracketHi(solver.arg) - 1
    /\ solver.result > Mid(BracketLo(solver.arg), BracketHi(solver.arg))

SimpsonDone == solver.pc = "done" /\ solver.fn \in SimpsonFns

\* Composite Simpson weights on nodes 0..n: 1 at both ends, 4 at odd and 2
\* at even interior nodes
CompositeWeight(i, n) ==
    IF i = 0 \/ i = n THEN 1 ELSE IF i % 2 = 1 THEN 4 ELSE 2

\* Node i of n equal subintervals from the lower limit (0 for h, 298.15 K
\* for s) to T, and the integrand there
LowerLimit(a) == IF a.fn = "h" THEN 0 ELSE T_ref
EqualNode(a, i, n) == LowerLimit(a) + (i * (a.T - LowerLimit(a))) \div n
Integrand(a, T) == IF a.fn = "h" THEN cp(T) ELSE cpOverT(T)

RECURSIVE WeightTotal(_, _)
WeightTotal(i, n) ==
    IF i > n THEN 0 ELSE CompositeWeight(i, n) + WeightTotal(i + 1, n)

\* The weighted sum over nodes i..j, node 0 evaluated at T0
RECURSIVE CompositeSum(_, _, _, _, _)
CompositeSum(a, T0, i, j, n) ==
    IF i > j THEN 0
    ELSE CompositeWeight(i, n)
             * Integrand(a, IF i = 0 THEN T0 ELSE EqualNode(a, i, n))
         + CompositeSum(a, T0, i + 1, j, n)

\* What the loop and the statement after it have added up
SimpsonTotal == solver.sum + SimpsonLast(solver.arg)

\* C19 as stated: the sums of h and s are the composite Simpson sums over
\* the 201 equally spaced nodes from the lower limit to T
C19_SimpsonEquallySpaced ==
    SimpsonDone =>
        SimpsonTotal
            = CompositeSum(solver.arg, LowerLimit(solver.arg), 0, 200, 200)

\* C19: the sums of h and s carry the composite Simpson weights (1 at the
\* ends, 4 at odd and 2 at even interior nodes, 600 in all) on the
\* integrand at the nodes lower + i * (T - lower) / 200, except that h
\* takes its first term at 1 K and not at its lower limit 0; the result is
\* the sum times step / 3 (less R ln(P / P_ref) for s), the step of s
\* having the sign of T - 298.15
C19_SimpsonFirstNodeAtOneKelvin ==
    SimpsonDone =>
        LET a == solver.arg
            T0 == IF a.fn = "h" THEN 100 ELSE T_ref
        IN  /\ solver.steps = 199
            /\ WeightTotal(0, 200) = 600
            /\ SimpsonTotal = CompositeSum(a, T0, 0, 200, 200)
            /\ a.fn = "h" =>
                   solver.result = MulDiv(SimpsonTotal \div 6, a.T, 1000) \div 100
            /\ a.fn = "s" =>
                   solver.result
                       = MulDiv(SimpsonTotal \div 600, a.T - T_ref, 1000) \div 10
                             - MulDiv(Ln(a.P, P_ref), R_air, 1000)
            /\ (a.fn = "s" /\ a.P = P_ref) =>
                   ((a.T < T_ref) <=> (solver.result < 0))

\* h has returned for 1400 K: its first term is cp at 1 K, which is below
\* cp at 0 K
C19_Witness ==
    /\ SimpsonDone
    /\ solver.arg = [fn |-> "h", T |-> 140000]
    /\ solver.steps = 199
    /\ solver.result > 0
    /\ SimpsonFirst(solver.arg) = cp(100)
    /\ cp(100) < cp(0)

-----------------------------------------------------------------------------
(* The bracket of the bisection loops                                      *)

\* let lo = ..., hi = ... leaves lo <= hi
OrderedBracket(a) == BracketLo(a) <= BracketHi(a)

\* One loop body: lo = mid or hi = mid keeps lo <= hi, never lowers lo and
\* never raises hi
Narrowed ==
    /\ solver'.lo <= solver'.hi
    /\ solver.lo <= solver'.lo
    /\ solver'.hi <= solver.hi

\* return (lo + hi) / 2 is inside the initial bracket
ReturnedInside ==
    LET a == solver.arg
    IN  /\ BracketLo(a) <= solver'.result
        /\ solver'.result <= BracketHi(a)
        /\ (a.fn = "T_isentropic" /\ a.T1 > 0) =>
               /\ TisoLo(a.T1) <= solver'.result
               /\ solver'.result <= TisoHi(a.T1)

\* C21 as stated: in T_isentropic, P_sat and T_from_s_super, when the
\* initial bracket has lo <= hi, every iteration keeps lo <= hi, never
\* lowers lo, never raises hi and leaves hi - lo exactly half its previous
\* value; the returned value is inside the initial bracket.
C21_BracketHalvedExactly ==
    [][/\ (BisectionStep /\ OrderedBracket(solver.arg)) =>
              /\ Narrowed
              /\ 2 * (solver'.hi - solver'.lo) = solver.hi - solver.lo
       /\ (BisectionExit /\ OrderedBracket(solver.arg)) => ReturnedInside
      ]_vars

\* C21 amended: in T_isentropic, P_sat and T_from_s_super, when the initial
\* bracket has lo <= hi, every iteration keeps lo <= hi, never lowers lo and
\* never raises hi, whatever the comparison gives; mid = (lo + hi) / 2 is
\* rounded to the resolution of the numbers, so hi - lo becomes half its
\* previous value rounded down or up to that resolution (not exactly half:
\* a bracket one unit wide stays one unit wide or closes to zero); the
\* returned value is inside the initial bracket, for T_isentropic with
\* T1 > 0 inside [0.4*T1, 3.5*T1].
C21_BracketHalvedRounded ==
    [][/\ (BisectionStep /\ OrderedBracket(solver.arg)) =>
              /\ Narrowed
              /\ LET w == solver.hi - solver.lo
                     w1 == solver'.hi - solver'.lo
                 IN  w1 = w \div 2 \/ w1 = (w + 1) \div 2
       /\ (BisectionExit /\ OrderedBracket(solver.arg)) => ReturnedInside
      ]_vars

\* P_sat has returned after 60 iterations that moved both ends of the
\* bracket and left it one unit wide: the last halvings were rounded
C21_Witness ==
    /\ solver.pc = "done"
    /\ solver.fn = "P_sat"
    /\ OrderedBracket(solver.arg)
    /\ solver.steps = PsatN
    /\ BracketLo(solver.arg) < solver.lo
    /\ solver.hi < BracketHi(solver.arg)
    /\ solver.hi - solver.lo = 1
    /\ solver.lo <= solver.result
    /\ solver.result <= solver.hi

-----------------------------------------------------------------------------
(* The report modal and the scroll lock                                    *)

ScrollLocked == overflow = "hidden"

\* The modal handlers change nothing but the class and the scroll lock,
\* and only as their conditions allow
ModalHandlersGuarded ==
    /\ ModalClickOn("content") => UNCHANGED vars
    /\ (KeyDownOn("Escape") /\ ~modalActive) => UNCHANGED vars
    /\ KeyDownOn("Enter") => UNCHANGED vars
    /\ ((CloseClick \/ ModalClickOn("modal")) /\ ~modalActive) =>
           UNCHANGED vars
    /\ (CloseClick \/ ModalClickOn("modal") \/ KeyDownOn("Escape")) =>
           (~modalActive' /\ UNCHANGED PageContent)

\* C22: after any sequence of analyse clicks, close-button clicks, backdrop
\* clicks, clicks inside the modal content and key presses the page scroll
\* is locked (body overflow 'hidden') exactly when the report modal is
\* active; Escape changes the state only when the modal is active, a click
\* on the modal only when its target is the modal itself, and closing a
\* closed modal changes nothing.
C22_ScrollLockedIffActive ==
    /\ [](ScrollLocked <=> modalActive)
    /\ [][ModalHandlersGuarded]_vars

\* The modal has been opened by two analyse clicks and is closed again with
\* the scroll lock released, before the charts of the second click are drawn
C22_Witness ==
    /\ clicks = 2
    /\ ~modalActive
    /\ ~ScrollLocked
    /\ Len(timers) = 1

-----------------------------------------------------------------------------
(* The Chart instances                                                     *)

\* The instances created on a canvas on which destroy() has not been called
LiveCharts(canvas) ==
    {k \in 1..Len(charts) :
        charts[k].canvas = canvas /\ ~charts[k].destroyed}

\* What a chart reference points at: nothing while it is null
Referenced(ref) == IF ref = 0 THEN {} ELSE {ref}

\* C23: after any sequence of analyse clicks and deferred render callbacks,
\* in any interleaving, at most one Chart instance that has not been
\* destroyed exists for the h-s canvas and at most one for the T-h canvas,
\* and hsChart and thChart reference that instance: every earlier instance
\* was destroyed before its replacement was created.
C23_SingleLiveChart ==
    /\ LiveCharts("hs-chart") = Referenced(hsChart)
    /\ LiveCharts("th-chart") = Referenced(thChart)
    /\ \A k \in 1..Len(charts) : charts[k].canvas \in {"hs-chart", "th-chart"}

\* Two render callbacks have run with a further analyse click still
\* pending: the first pair of instances is destroyed, the second is live
C23_Witness ==
    /\ Len(charts) = 4
    /\ charts[1].destroyed
    /\ charts[2].destroyed
    /\ hsChart = 3
    /\ thChart = 4
    /\ ~charts[3].destroyed
    /\ ~charts[4].destroyed
    /\ timers # <<>>

-----------------------------------------------------------------------------
(* The report of a click: tables at once, charts from its timer            *)

\* setTimeout(..., 100): a pending callback is run
SpecLive == Spec /\ WF_vars(TimerFire)

\* The metrics and the two state tables are those of click k
ShownInTables(k) ==
    LET o == objects[k]
    IN  /\ perfMetrics = populatePerformance(o.gasResult, o.steamResult, o.p)
        /\ adMetrics = populateADMetrics(o.adResult, o.gasResult, o.p)
        /\ gasTableBody = populateTable(o.gasResult.states)
        /\ steamTableBody = populateTable(o.steamResult.states)

\* Both charts are drawn from the state sequences of click k
ShownInCharts(k) ==
    /\ hsChart # 0
    /\ thChart # 0
    /\ charts[hsChart].points = HSPoints(objects[k].steamResult.states)
    /\ charts[thChart].points = THPoints(objects[k].gasResult.states)

\* The click whose callback ran last
LastRendered == clicks - Len(timers)

\* The results, tables and pending callbacks of every click, in order
ReportsInOrder ==
    /\ Len(objects) = clicks
    /\ \A j \in 1..Len(timers) : timers[j].click = LastRendered + j
    /\ clicks > 0 => ShownInTables(clicks)
    /\ LastRendered > 0 => ShownInCharts(LastRendered)
    /\ LastRendered = 0 => (charts = <<>> /\ hsChart = 0 /\ thChart = 0)

\* A click evaluates the three cycles on the form's values, fills the
\* tables in the same step, schedules one callback and draws nothing
ClickReports ==
    clicks' # clicks =>
        /\ clicks' = clicks + 1
        /\ \A fn \in {"calculateGasCycle", "calculateSteamCycle",
                      "calculateADHTC"} :
               \E e \in evalLog' \ evalLog : e.fn = fn /\ e.click = clicks'
        /\ objects'[clicks'].gasResult = GasCycleOf[getParams(inputs)]
        /\ objects'[clicks'].steamResult = SteamCycleOf[getParams(inputs)]
        /\ objects'[clicks'].adResult = calculateADHTC(getParams(inputs))
        /\ timers' = Append(timers, [click |-> clicks'])
        /\ UNCHANGED <<charts, hsChart, thChart>>

\* C24: a click on Analyse computes all cycles, fills the metrics and the
\* state tables in the same step and schedules exactly one deferred chart
\* render, which uses the results of that click; with the timers firing in
\* scheduling order the pending renders all run, and once none is pending
\* both charts show the state sequences of the most recent click, the ones
\* the tables show, also after several clicks in a row and after the modal
\* was closed in between.
C24_ChartsFollowLastClick ==
    /\ []ReportsInOrder
    /\ [][ClickReports]_vars
    /\ (timers # <<>>) ~>
           (timers = <<>> /\ ShownInCharts(clicks) /\ ShownInTables(clicks))

\* Two clicks on different inputs, both callbacks run, the modal closed:
\* the first click's charts are destroyed, and the live charts and the
\* tables show the second click, whose states differ from the first's
C24_Witness ==
    /\ clicks = 2
    /\ timers = <<>>
    /\ ~modalActive
    /\ objects[1].p # objects[2].p
    /\ Len(charts) = 4
    /\ charts[1].destroyed
    /\ charts[1].points # charts[3].points
    /\ charts[2].points # charts[4].points
    /\ ShownInCharts(2)
    /\ ShownInTables(2)

NextTable == CallCp

SpecTable == InitCore /\ [][NextTable]_vars

\* C14: GasTable.cp(T) is strictly positive for every T from 250 K to
\* 2000 K
C14_CpPositive ==
    call.fn = "cp" => (call.arg \in 25000..200000 /\ ret > 0)

\* cp has been applied at 250 K, where it is below its constant term
C14_Witness ==
    /\ call = [fn |-> "cp", arg |-> 25000]
    /\ ret > 0
    /\ ret < 10483

IsDomeCall == call.fn = "saturationDome"

\* The pressures of ret are numbers, start at 5 kPa, end at 18000 kPa and
\* increase strictly, sample i at 5 + 17995 i / n
LinearSweep(n) ==
    /\ \A k \in 1..Len(ret) :
           /\ ~ret[k].P.nan
           /\ ret[k].P.v = 5000 + MulDiv(17995000, k - 1, n)
    /\ ret[1].P.v = 5000
    /\ ret[Len(ret)].P.v = 18000000
    /\ \A k \in 1..(Len(ret) - 1) : ret[k].P.v < ret[k + 1].P.v

RepeatedCallEqual ==
    (prev # None /\ prev.call = call) => prev.ret = ret

\* C20 as stated: for every n >= 0, n + 1 samples swept linearly from
\* 5 kPa to 18000 kPa
C20_DomeEveryN ==
    IsDomeCall =>
        /\ Len(ret) = call.arg + 1
        /\ IF call.arg = 0
           THEN ~ret[1].P.nan /\ ret[1].P.v \in {5000, 18000000}
           ELSE LinearSweep(call.arg)
        /\ RepeatedCallEqual

\* C20: saturationDome(n) returns n + 1 samples; for n >= 1 their
\* pressures are 5 + 17995 i / n, from 5 kPa to 18000 kPa in strictly
\* increasing order; for n = 0 the one sample has P = 0 / 0 = NaN and NaN
\* properties; a repeated call with the same n returns the same sequence
C20_DomePositiveN ==
    IsDomeCall =>
        /\ Len(ret) = call.arg + 1
        /\ call.arg >= 1 => LinearSweep(call.arg)
        /\ call.arg = 0 => (ret[1].P.nan /\ ret[1].T.nan /\ ret[1].hg.nan)
        /\ RepeatedCallEqual

\* saturationDome(50) has been called twice in a row
C20_Witness ==
    /\ IsDomeCall
    /\ call.arg = 50
    /\ Len(ret) = 51
    /\ prev # None
    /\ prev.call = call
    /\ ret[26].P.v = 9002500

====
